---- MODULE Spec2Model ----
(***************************************************************************)
(* The CommonJS module loaders of the Titanium runtime shim and the path   *)
(* library they rest on.                                                   *)
(*                                                                         *)
(* JavaScript strings are sequences of one-character strings, so that the  *)
(* path functions work on characters exactly as the source does.           *)
(***************************************************************************)
EXTENDS Integers, Sequences, FiniteSets, TLC

(***************************************************************************)
(* String literals of the source.                                          *)
(***************************************************************************)
Empty == << >>
Slash == <<"/">>
Backslash == <<"\\">>
Dot == <<".">>
DotDot == <<".", ".">>
DotSlash == <<".", "/">>
ExtJs == <<".", "j", "s">>
ExtJson == <<".", "j", "s", "o", "n">>
Json == <<"j", "s", "o", "n">>
PackageJson == <<"p", "a", "c", "k", "a", "g", "e", ".", "j", "s", "o", "n">>
IndexJs == <<"i", "n", "d", "e", "x", ".", "j", "s">>
IndexJson == <<"i", "n", "d", "e", "x", ".", "j", "s", "o", "n">>
NodeModules == <<"n", "o", "d", "e", "_", "m", "o", "d", "u", "l", "e", "s">>
RootNodeModules == <<"/", "n", "o", "d", "e", "_", "m", "o", "d", "u", "l", "e", "s">>
ResourcesDir == <<"R", "e", "s", "o", "u", "r", "c", "e", "s">>
CommonJsSuffix == <<".", "c", "o", "m", "m", "o", "n", "j", "s">>
MainModuleId == <<".">>

UpperCase ==
  {"A", "B", "C", "D", "E", "F", "G", "H", "I", "J", "K", "L", "M",
   "N", "O", "P", "Q", "R", "S", "T", "U", "V", "W", "X", "Y", "Z"}
LowerCase ==
  {"a", "b", "c", "d", "e", "f", "g", "h", "i", "j", "k", "l", "m",
   "n", "o", "p", "q", "r", "s", "t", "u", "v", "w", "x", "y", "z"}

(***************************************************************************)
(* String.prototype operations, with JavaScript's 0-based indices.         *)
(***************************************************************************)
SetMax(S) == CHOOSE x \in S : \A y \in S : y <= x
SetMin(S) == CHOOSE x \in S : \A y \in S : x <= y

\* s.charAt(i): the empty string out of range
CharAt(s, i) == IF i >= 0 /\ i < Len(s) THEN s[i + 1] ELSE ""

\* s.slice(from, to) for 0 <= from, to; an empty result when to <= from
Slice(s, from, to) ==
  LET t == IF to > Len(s) THEN Len(s) ELSE to
  IN IF from >= t THEN Empty ELSE SubSeq(s, from + 1, t)

\* s.slice(from)
SliceFrom(s, from) == Slice(s, from, Len(s))

\* s.slice(-n)
SliceLast(s, n) == IF n >= Len(s) THEN s ELSE SubSeq(s, Len(s) - n + 1, Len(s))

\* s.substring(0, n)
Substring0(s, n) == Slice(s, 0, n)

StartsWith(s, p) == Len(p) <= Len(s) /\ SubSeq(s, 1, Len(p)) = p
EndsWith(s, p) == Len(p) <= Len(s) /\ SubSeq(s, Len(s) - Len(p) + 1, Len(s)) = p

\* s.indexOf(c) for a one-character c
IndexOf(s, c) ==
  LET hits == {i \in 0..(Len(s) - 1) : s[i + 1] = c}
  IN IF hits = {} THEN -1 ELSE SetMin(hits)

\* s.lastIndexOf(c, fromIndex) for a one-character c: a negative fromIndex counts as 0
LastIndexOf(s, c, fromIndex) ==
  LET f == IF fromIndex < 0 THEN 0 ELSE fromIndex
      hits == {i \in 0..(Len(s) - 1) : i <= f /\ s[i + 1] = c}
  IN IF hits = {} THEN -1 ELSE SetMax(hits)

\* s.split(c) for a one-character c
RECURSIVE Split(_, _)
Split(s, c) ==
  LET i == IndexOf(s, c)
  IN IF i = -1 THEN <<s>>
     ELSE <<Slice(s, 0, i)>> \o Split(SliceFrom(s, i + 1), c)

\* array.join(sep)
RECURSIVE JoinStr(_, _)
JoinStr(parts, sep) ==
  IF parts = << >> THEN Empty
  ELSE IF Len(parts) = 1 THEN parts[1]
  ELSE parts[1] \o sep \o JoinStr(Tail(parts), sep)

\* s.replace(/\//g, '\\')
ReplaceSlashes(s) == [i \in 1..Len(s) |-> IF s[i] = "/" THEN "\\" ELSE s[i]]

(***************************************************************************)
(* The path library.                                                       *)
(***************************************************************************)
isWindowsDeviceName(char) == char \in UpperCase \/ char \in LowerCase

startsWithSlash(isPosix, filepath) == Len(filepath) > 0 /\ CharAt(filepath, 0) = "/"

isAbsolute(isPosix, filepath) ==
  IF Len(filepath) = 0 THEN FALSE
  ELSE IF CharAt(filepath, 0) = "/" THEN TRUE
  ELSE IF isPosix THEN FALSE
  ELSE IF CharAt(filepath, 0) = "\\" THEN TRUE
  ELSE IF Len(filepath) > 2 /\ isWindowsDeviceName(CharAt(filepath, 0))
          /\ CharAt(filepath, 1) = ":"
       THEN CharAt(filepath, 2) = "/" \/ CharAt(filepath, 2) = "\\"
  ELSE FALSE

dirname(separator, filepath) ==
  LET length == Len(filepath)
      hadTrailing == EndsWith(filepath, separator)
      fromIndex == IF hadTrailing THEN length - 2 ELSE length - 1
      foundIndex == LastIndexOf(filepath, separator[1], fromIndex)
  IN IF length = 0 THEN Dot
     ELSE IF foundIndex = -1
       THEN IF length >= 2 /\ separator = Backslash /\ CharAt(filepath, 1) = ":"
               /\ isWindowsDeviceName(CharAt(filepath, 0))
            THEN filepath
            ELSE Dot
     ELSE IF foundIndex = 0 THEN separator
     ELSE IF foundIndex = 1 /\ separator = Slash /\ CharAt(filepath, 0) = "/"
       THEN <<"/", "/">>
     ELSE Slice(filepath, 0, foundIndex)

\* a loop of normalize that keeps a '..' it has nothing to pop for
RECURSIVE normalizeSegmentsKeepingDotDot(_, _)
normalizeSegmentsKeepingDotDot(parts, result) ==
  IF parts = << >> THEN result
  ELSE LET segment == Head(parts)
       IN IF Len(segment) # 0 /\ segment # Dot
          THEN IF segment = DotDot /\ result # << >> /\ result[Len(result)] # DotDot
               THEN normalizeSegmentsKeepingDotDot(Tail(parts), SubSeq(result, 1, Len(result) - 1))
               ELSE normalizeSegmentsKeepingDotDot(Tail(parts), Append(result, segment))
          ELSE normalizeSegmentsKeepingDotDot(Tail(parts), result)

\* the loop of normalize over the split segments; Array.pop on an empty array does nothing
RECURSIVE normalizeSegments(_, _)
normalizeSegments(parts, result) ==
  IF parts = << >> THEN result
  ELSE LET segment == Head(parts)
       IN IF Len(segment) # 0 /\ segment # Dot
          THEN IF segment = DotDot
               THEN normalizeSegments(Tail(parts),
                      IF result = << >> THEN result ELSE SubSeq(result, 1, Len(result) - 1))
               ELSE normalizeSegments(Tail(parts), Append(result, segment))
          ELSE normalizeSegments(Tail(parts), result)

normalize(separator, filepath0) ==
  LET isWindows == separator = Backslash
      filepath == IF isWindows THEN ReplaceSlashes(filepath0) ELSE filepath0
      hadLeading == StartsWith(filepath, separator)
      isUNC == hadLeading /\ isWindows /\ Len(filepath) > 2 /\ CharAt(filepath, 1) = "\\"
      hadTrailing == EndsWith(filepath, separator)
      result == normalizeSegments(Split(filepath, separator[1]), << >>)
      Finished(normalized) ==
        IF Len(filepath0) = 0 THEN Dot
        ELSE IF isUNC THEN Backslash \o normalized
        ELSE normalized
  IN Finished((IF hadLeading THEN separator ELSE Empty)
              \o JoinStr(result, separator)
              \o (IF hadTrailing THEN separator ELSE Empty))

joinUnnormalized(separator, paths) ==
  JoinStr(SelectSeq(paths, LAMBDA segment : Len(segment) # 0), separator)

join(separator, paths) ==
  normalize(separator, JoinStr(SelectSeq(paths, LAMBDA segment : Len(segment) # 0), separator))

\* process.cwd() when the host has no process object
cwd == Slash

\* the right-to-left scan of resolve: <<resolved, hitRoot>>
RECURSIVE resolveScan(_, _, _, _)
resolveScan(separator, paths, i, resolved) ==
  IF i < 1 THEN <<resolved, FALSE>>
  ELSE LET segment == paths[i]
       IN IF Len(segment) = 0 THEN resolveScan(separator, paths, i - 1, resolved)
          ELSE IF isAbsolute(separator = Slash, segment)
               THEN <<segment \o separator \o resolved, TRUE>>
          ELSE resolveScan(separator, paths, i - 1, segment \o separator \o resolved)

resolve(separator, paths) ==
  LET scan == resolveScan(separator, paths, Len(paths), Empty)
      resolved == IF scan[2] THEN scan[1] ELSE cwd \o separator \o scan[1]
      Trimmed(normalized) ==
        IF CharAt(normalized, Len(normalized) - 1) = separator[1]
        THEN IF separator # Slash /\ Len(normalized) = 3 /\ CharAt(normalized, 1) = ":"
                /\ isWindowsDeviceName(CharAt(normalized, 0))
             THEN normalized
             ELSE Slice(normalized, 0, Len(normalized) - 1)
        ELSE normalized
  IN Trimmed(normalize(separator, resolved))

extname(separator, filepath) ==
  LET index == LastIndexOf(filepath, ".", Len(filepath))
      endIndex == IF EndsWith(filepath, separator) THEN Len(filepath) - 1 ELSE Len(filepath)
  IN IF index = -1 \/ index = 0 THEN Empty ELSE Slice(filepath, index, endIndex)

lastIndexWin32Separator(filepath, index) ==
  LET hits == {i \in 0..index : CharAt(filepath, i) \in {"\\", "/"}}
  IN IF hits = {} THEN -1 ELSE SetMax(hits)

(***************************************************************************)
(* JavaScript values the path library is called with and answers with:     *)
(* strings, the non-strings undefined, null and a number, booleans, and    *)
(* the object parse makes.                                                 *)
(***************************************************************************)
Str(s) == [type |-> "string", s |-> s]
UndefinedValue == [type |-> "undefined"]
NullValue == [type |-> "object", null |-> TRUE]
NumberValue == [type |-> "number"]
Bool(b) == [type |-> "boolean", b |-> b]
PathObject(root, dir, base, ext, name) ==
  [type |-> "object", null |-> FALSE, root |-> root, dir |-> dir, base |-> base,
   ext |-> ext, name |-> name]

\* "drop trailing extension (if specified)"; ext is undefined or a string value
dropExt(base, ext) ==
  IF ext = UndefinedValue THEN base
  ELSE IF EndsWith(base, ext.s) THEN Slice(base, 0, Len(base) - Len(ext.s))
  ELSE base

\* basename of the string filepath; ext is undefined or a string value
basename(separator, filepath, ext) ==
  LET length == Len(filepath)
      isPosix == separator = Slash
      lastChar == CharAt(filepath, length - 1)
      endIndex == IF lastChar = "/" \/ (~isPosix /\ lastChar = "\\")
                  THEN length - 1 ELSE length
      lastIndex == IF isPosix THEN LastIndexOf(filepath, separator[1], endIndex - 1)
                   ELSE lastIndexWin32Separator(filepath, endIndex - 1)
  IN IF length = 0 THEN Empty
     ELSE IF ~isPosix /\ (lastIndex = 2 \/ lastIndex = -1) /\ CharAt(filepath, 1) = ":"
             /\ isWindowsDeviceName(CharAt(filepath, 0))
       THEN Empty
     ELSE dropExt(Slice(filepath, lastIndex + 1, endIndex), ext)

\* the "while (true)" of relative for resolved from and to: <<upCount, remainingPath>>,
\* and <<-1, "">> when it never ends (dirname(from) is from and to does not start
\* with it)
RECURSIVE relativeLoop(_, _, _, _)
relativeLoop(separator, from, to, upCount) ==
  IF StartsWith(to, from) THEN <<upCount, SliceFrom(to, Len(from))>>
  ELSE IF dirname(separator, from) = from THEN <<-1, Empty>>
  ELSE relativeLoop(separator, dirname(separator, from), to, upCount + 1)

\* ('..' + separator).repeat(upCount)
RECURSIVE repeatUp(_, _)
repeatUp(separator, upCount) ==
  IF upCount <= 0 THEN Empty ELSE DotDot \o separator \o repeatUp(separator, upCount - 1)

\* the end of relative, found being the outcome of the loop
relativeFrom(separator, found) ==
  repeatUp(separator, found[1])
    \o (IF Len(found[2]) > 0 THEN SliceFrom(found[2], 1) ELSE found[2])

\* relative of the resolved strings from and to
relativeResolved(separator, from, to) ==
  IF from = to THEN Empty ELSE relativeFrom(separator, relativeLoop(separator, from, to, 0))

\* relative for strings from and to
relative(separator, from, to) ==
  IF from = to THEN Empty
  ELSE relativeResolved(separator, resolve(separator, <<from>>), resolve(separator, <<to>>))

\* relative(from, to) never returns
relativeHangs(separator, from, to) ==
  /\ from # to
  /\ resolve(separator, <<from>>) # resolve(separator, <<to>>)
  /\ relativeLoop(separator, resolve(separator, <<from>>), resolve(separator, <<to>>), 0)[1] = -1

\* s.slice(0, to) for any integer to: a negative to counts from the end
SliceTo(s, to) ==
  IF to >= 0 THEN Slice(s, 0, to)
  ELSE IF Len(s) + to <= 0 THEN Empty
  ELSE Slice(s, 0, Len(s) + to)

rootless(separator, filepath) == Empty

\* result.root of parse
rootOf(separator, filepath) ==
  IF CharAt(filepath, 0) = "/" THEN Slash
  ELSE IF separator = Slash THEN Empty
  ELSE IF CharAt(filepath, 0) = "\\" THEN Backslash
  ELSE IF Len(filepath) > 1 /\ isWindowsDeviceName(CharAt(filepath, 0))
          /\ CharAt(filepath, 1) = ":"
       THEN IF Len(filepath) > 2 /\ CharAt(filepath, 2) \in {"/", "\\"}
            THEN Slice(filepath, 0, 3)
            ELSE Slice(filepath, 0, 2)
  ELSE Empty

\* parse once result.base and result.ext are known
parseWith(separator, filepath, base, ext) ==
  PathObject(rootOf(separator, filepath),
             SliceTo(filepath, Len(filepath) - (IF Len(base) = 0 THEN 0 ELSE Len(base) + 1)),
             base, ext, Slice(base, 0, Len(base) - Len(ext)))

parseBase(separator, filepath, base) ==
  parseWith(separator, filepath, base, extname(separator, base))

\* parse of the string filepath
parse(separator, filepath) ==
  IF Len(filepath) = 0 THEN PathObject(Empty, Empty, Empty, Empty, Empty)
  ELSE parseBase(separator, filepath, basename(separator, filepath, UndefinedValue))

\* format of an object that parse made (every property a string)
format(separator, pathObject) ==
  LET base == IF pathObject.base # Empty THEN pathObject.base
              ELSE pathObject.name \o pathObject.ext
  IN IF pathObject.dir = Empty \/ pathObject.dir = pathObject.root
     THEN pathObject.root \o base
     ELSE pathObject.dir \o separator \o base

UNCPrefix == <<"\\", "\\", "?", "\\", "U", "N", "C", "\\">>
LongPrefix == <<"\\", "\\", "?", "\\">>

\* toNamespacedPath of the string filepath, resolvedPath being resolve('\\', [filepath])
namespaced(filepath, resolvedPath) ==
  IF Len(resolvedPath) < 2 THEN filepath
  ELSE IF CharAt(resolvedPath, 0) = "\\" /\ CharAt(resolvedPath, 1) = "\\"
       THEN IF Len(resolvedPath) >= 3 /\ CharAt(resolvedPath, 2) \in {"?", "."}
            THEN filepath
            ELSE UNCPrefix \o SliceFrom(resolvedPath, 2)
  ELSE IF isWindowsDeviceName(CharAt(resolvedPath, 0)) /\ CharAt(resolvedPath, 1) = ":"
       THEN LongPrefix \o resolvedPath
  ELSE filepath

\* Win32Path.toNamespacedPath for any value
toNamespacedPath(filepath) ==
  IF filepath.type # "string" THEN filepath
  ELSE IF Len(filepath.s) = 0 THEN Str(Empty)
  ELSE Str(namespaced(filepath.s, resolve(Backslash, <<filepath.s>>)))

\* assertArgumentType(arg, name, typename) lets the call go on
assertArgumentType(arg, typename) == arg.type = typename

\* assertSegment(segment) lets the call go on
assertSegment(segment) == segment.type = "string"

\* the segments join and resolve are given, as strings
strings(paths) == [i \in DOMAIN paths |-> paths[i].s]

\* join examines every segment
joinAsserts(paths) == \A i \in DOMAIN paths : assertSegment(paths[i])

\* the loop of resolve examines the segments from the last one to the first absolute
\* one: TRUE when each one it comes to is a string
RECURSIVE resolveAsserts(_, _, _)
resolveAsserts(isPosix, paths, i) ==
  IF i < 1 THEN TRUE
  ELSE IF ~assertSegment(paths[i]) THEN FALSE
  ELSE IF Len(paths[i].s) = 0 THEN resolveAsserts(isPosix, paths, i - 1)
  ELSE IF isAbsolute(isPosix, paths[i].s) THEN TRUE
  ELSE resolveAsserts(isPosix, paths, i - 1)

\* how a call of the library ends
NoResult == [t |-> "none"]
Returns(v) == [t |-> "return", v |-> v]
NoTypeError == [t |-> "return", v |-> [type |-> "undefined"]]
TypeError == [t |-> "throw", err |-> "TypeError"]
Hangs == [t |-> "hang"]

\* the i-th argument of a call
Arg(a, i) == IF i <= Len(a) THEN a[i] ELSE UndefinedValue

\* the arguments of a resolve call left of the one at i, where the loop stops, dropped
reached(isPosix, paths) ==
  LET stops == {i \in DOMAIN paths : paths[i].type = "string" /\ isAbsolute(isPosix, paths[i].s)}
  IN IF stops = {} THEN paths ELSE SubSeq(paths, SetMax(stops), Len(paths))

\* path.posix (separator '/') and path.win32 (separator '\\'): the method name called
\* with the arguments a
Call(separator, name, a) ==
  CASE name = "isAbsolute" ->
         IF assertArgumentType(Arg(a, 1), "string")
         THEN Returns(Bool(isAbsolute(separator = Slash, a[1].s))) ELSE TypeError
    [] name = "dirname" ->
         IF assertArgumentType(Arg(a, 1), "string")
         THEN Returns(Str(dirname(separator, a[1].s))) ELSE TypeError
    [] name = "extname" ->
         IF assertArgumentType(Arg(a, 1), "string")
         THEN Returns(Str(extname(separator, a[1].s))) ELSE TypeError
    [] name = "basename" ->
         IF assertArgumentType(Arg(a, 1), "string")
            /\ (Arg(a, 2) # UndefinedValue => assertArgumentType(Arg(a, 2), "string"))
         THEN Returns(Str(basename(separator, a[1].s, Arg(a, 2)))) ELSE TypeError
    [] name = "normalize" ->
         IF assertArgumentType(Arg(a, 1), "string")
         THEN Returns(Str(normalize(separator, a[1].s))) ELSE TypeError
    [] name = "join" ->
         IF joinAsserts(a) THEN Returns(Str(join(separator, strings(a)))) ELSE TypeError
    [] name = "resolve" ->
         IF resolveAsserts(separator = Slash, a, Len(a))
         THEN Returns(Str(resolve(separator, strings(reached(separator = Slash, a)))))
         ELSE TypeError
    [] name = "relative" ->
         IF ~(assertArgumentType(Arg(a, 1), "string") /\ assertArgumentType(Arg(a, 2), "string"))
         THEN TypeError
         ELSE IF relativeHangs(separator, a[1].s, a[2].s) THEN Hangs
         ELSE Returns(Str(relative(separator, a[1].s, a[2].s)))
    [] name = "parse" ->
         IF assertArgumentType(Arg(a, 1), "string")
         THEN Returns(parse(separator, a[1].s)) ELSE TypeError
    [] name = "format" ->
         IF assertArgumentType(Arg(a, 1), "object") /\ ~a[1].null
         THEN Returns(Str(format(separator, a[1]))) ELSE TypeError
    [] name = "toNamespacedPath" ->
         Returns(IF separator = Slash THEN Arg(a, 1) ELSE toNamespacedPath(Arg(a, 1)))

(***************************************************************************)
(* Assets, module bodies and the values modules export.                    *)
(*                                                                         *)
(* An asset's text is a record: kind "js" with the statements of a module  *)
(* body, kind "json" with the main field of the object it parses to (empty *)
(* when it has none), kind "bad" for text that is neither.  A body is a    *)
(* sequence of statements:                                                 *)
(*   set   exports[key] = n                                                *)
(*   req   last = require(spec)                                            *)
(*   get   exports[key] = last[from]                                       *)
(*   throw throw new Error()                                               *)
(***************************************************************************)
Keys == {"val", "sawVal", "ext"}

Set(k, n) == [op |-> "set", key |-> k, from |-> "val", n |-> n, spec |-> Empty]
Req(s) == [op |-> "req", key |-> "val", from |-> "val", n |-> 0, spec |-> s]
Get(k, f) == [op |-> "get", key |-> k, from |-> f, n |-> 0, spec |-> Empty]
Throw == [op |-> "throw", key |-> "val", from |-> "val", n |-> 0, spec |-> Empty]

JsText(body) == [kind |-> "js", body |-> body, main |-> Empty]
JsonText(main) == [kind |-> "json", body |-> << >>, main |-> main]
BadText == [kind |-> "bad", body |-> << >>, main |-> Empty]

\* what Script.runInThisContext makes of a text: text that is no script fails to compile
ScriptBody(text) == IF text.kind = "js" THEN text.body ELSE <<Throw>>

\* an object of the heap: integer properties (0 for undefined) and a main string
EmptyObject == [vals |-> [k \in Keys |-> 0], main |-> Empty]

Error(kind, msg) == [kind |-> kind, msg |-> msg]
NoError == Error("none", Empty)

(***************************************************************************)
(* The hosts the loader is run in: the assets of the asset store, the      *)
(* native bindings with their companion CommonJS scripts, the files the    *)
(* host runs with runModule and the requests it makes of global.require.   *)
(***************************************************************************)
S_o_b == <<".", "/", "b">>
S_o_a == <<".", "/", "a">>
S__appojs == <<"/", "a", "p", "p", ".", "j", "s">>
S__aojs == <<"/", "a", ".", "j", "s">>
S__bojs == <<"/", "b", ".", "j", "s">>
S_Resources_appojs == <<"R", "e", "s", "o", "u", "r", "c", "e", "s", "/", "a", "p", "p", ".", "j", "s">>
S__a == <<"/", "a">>
S_a == <<"a">>
S_lib_indexojs == <<"l", "i", "b", "/", "i", "n", "d", "e", "x", ".", "j", "s">>
S_mainojs == <<"m", "a", "i", "n", ".", "j", "s">>
S_o_main == <<".", "/", "m", "a", "i", "n">>
S_dep == <<"d", "e", "p">>
S_oo_pkg == <<".", ".", "/", "p", "k", "g">>
S_missingojs == <<"m", "i", "s", "s", "i", "n", "g", ".", "j", "s">>
S_o_ == <<".", "/">>
S__pkg_packageojson == <<"/", "p", "k", "g", "/", "p", "a", "c", "k", "a", "g", "e", ".", "j", "s", "o", "n">>
S__pkg_lib_indexojs == <<"/", "p", "k", "g", "/", "l", "i", "b", "/", "i", "n", "d", "e", "x", ".", "j", "s">>
S__shadowojs == <<"/", "s", "h", "a", "d", "o", "w", ".", "j", "s">>
S__shadow_packageojson == <<"/", "s", "h", "a", "d", "o", "w", "/", "p", "a", "c", "k", "a", "g", "e", ".", "j", "s", "o", "n">>
S__shadow_mainojs == <<"/", "s", "h", "a", "d", "o", "w", "/", "m", "a", "i", "n", ".", "j", "s">>
S__node_modules_dep_packageojson == <<"/", "n", "o", "d", "e", "_", "m", "o", "d", "u", "l", "e", "s", "/", "d", "e", "p", "/", "p", "a", "c", "k", "a", "g", "e", ".", "j", "s", "o", "n">>
S__node_modules_dep_mainojs == <<"/", "n", "o", "d", "e", "_", "m", "o", "d", "u", "l", "e", "s", "/", "d", "e", "p", "/", "m", "a", "i", "n", ".", "j", "s">>
S__nomain_packageojson == <<"/", "n", "o", "m", "a", "i", "n", "/", "p", "a", "c", "k", "a", "g", "e", ".", "j", "s", "o", "n">>
S__nomain_indexojs == <<"/", "n", "o", "m", "a", "i", "n", "/", "i", "n", "d", "e", "x", ".", "j", "s">>
S__sub_userojs == <<"/", "s", "u", "b", "/", "u", "s", "e", "r", ".", "j", "s">>
S__json == <<"/", "j", "s", "o", "n">>
S__broken_packageojson == <<"/", "b", "r", "o", "k", "e", "n", "/", "p", "a", "c", "k", "a", "g", "e", ".", "j", "s", "o", "n">>
S__broken_indexojs == <<"/", "b", "r", "o", "k", "e", "n", "/", "i", "n", "d", "e", "x", ".", "j", "s">>
S__loop_packageojson == <<"/", "l", "o", "o", "p", "/", "p", "a", "c", "k", "a", "g", "e", ".", "j", "s", "o", "n">>
S__data_indexojson == <<"/", "d", "a", "t", "a", "/", "i", "n", "d", "e", "x", ".", "j", "s", "o", "n">>
S__pkg == <<"/", "p", "k", "g">>
S_pkg == <<"p", "k", "g">>
S__shadow == <<"/", "s", "h", "a", "d", "o", "w">>
S_shadow == <<"s", "h", "a", "d", "o", "w">>
S_node_modules_dep == <<"n", "o", "d", "e", "_", "m", "o", "d", "u", "l", "e", "s", "/", "d", "e", "p">>
S__nomain == <<"/", "n", "o", "m", "a", "i", "n">>
S_o_sub_user == <<".", "/", "s", "u", "b", "/", "u", "s", "e", "r">>
S__nomain_index == <<"/", "n", "o", "m", "a", "i", "n", "/", "i", "n", "d", "e", "x">>
S__broken == <<"/", "b", "r", "o", "k", "e", "n">>
S__loop == <<"/", "l", "o", "o", "p">>
S__data == <<"/", "d", "a", "t", "a">>
S_l == <<"l">>
S_n == <<"n">>
S__nat_natojs == <<"/", "n", "a", "t", "/", "n", "a", "t", ".", "j", "s">>
S__m_mojs == <<"/", "m", "/", "m", ".", "j", "s">>
S__m_indexojs == <<"/", "m", "/", "i", "n", "d", "e", "x", ".", "j", "s">>
S__node_modules_mojs == <<"/", "n", "o", "d", "e", "_", "m", "o", "d", "u", "l", "e", "s", "/", "m", ".", "j", "s">>
S__mojs == <<"/", "m", ".", "j", "s">>
S__d_indexojs == <<"/", "d", "/", "i", "n", "d", "e", "x", ".", "j", "s">>
S__node_modules_dojs == <<"/", "n", "o", "d", "e", "_", "m", "o", "d", "u", "l", "e", "s", "/", "d", ".", "j", "s">>
S__dojs == <<"/", "d", ".", "j", "s">>
S__node_modules_nojs == <<"/", "n", "o", "d", "e", "_", "m", "o", "d", "u", "l", "e", "s", "/", "n", ".", "j", "s">>
S__nojs == <<"/", "n", ".", "j", "s">>
S__lojs == <<"/", "l", ".", "j", "s">>
S__node_modules_x_yojs == <<"/", "n", "o", "d", "e", "_", "m", "o", "d", "u", "l", "e", "s", "/", "x", "/", "y", ".", "j", "s">>
S__x_yojs == <<"/", "x", "/", "y", ".", "j", "s">>
S__sub_node_modules_nojs == <<"/", "s", "u", "b", "/", "n", "o", "d", "e", "_", "m", "o", "d", "u", "l", "e", "s", "/", "n", ".", "j", "s">>
S__sub_deep_kojs == <<"/", "s", "u", "b", "/", "d", "e", "e", "p", "/", "k", ".", "j", "s">>
S__natojs == <<"/", "n", "a", "t", ".", "j", "s">>
S_nat == <<"n", "a", "t">>
S_m == <<"m">>
S_d == <<"d">>
S_x_y == <<"x", "/", "y">>
S_o_sub_deep_k == <<".", "/", "s", "u", "b", "/", "d", "e", "e", "p", "/", "k">>
S_none == <<"n", "o", "n", "e">>
S_o_t == <<".", "/", "t">>
S_o_u == <<".", "/", "u">>
S_o_badojson == <<".", "/", "b", "a", "d", ".", "j", "s", "o", "n">>
S_oox == <<".", ".", "x">>
S_missing_module == <<"m", "i", "s", "s", "i", "n", "g", "-", "m", "o", "d", "u", "l", "e">>
S__tojs == <<"/", "t", ".", "j", "s">>
S__uojs == <<"/", "u", ".", "j", "s">>
S__vojs == <<"/", "v", ".", "j", "s">>
S__badojson == <<"/", "b", "a", "d", ".", "j", "s", "o", "n">>
S__goodojson == <<"/", "g", "o", "o", "d", ".", "j", "s", "o", "n">>
S__usebadojs == <<"/", "u", "s", "e", "b", "a", "d", ".", "j", "s">>
S__badpkg_packageojson == <<"/", "b", "a", "d", "p", "k", "g", "/", "p", "a", "c", "k", "a", "g", "e", ".", "j", "s", "o", "n">>
S__badpkg_indexojs == <<"/", "b", "a", "d", "p", "k", "g", "/", "i", "n", "d", "e", "x", ".", "j", "s">>
S__ooxojs == <<"/", ".", ".", "x", ".", "j", "s">>
S__sub_mojs == <<"/", "s", "u", "b", "/", "m", ".", "j", "s">>
S__sub_wojs == <<"/", "s", "u", "b", "/", "w", ".", "j", "s">>
S_o_v == <<".", "/", "v">>
S__bad == <<"/", "b", "a", "d">>
S_o_usebad == <<".", "/", "u", "s", "e", "b", "a", "d">>
S__badpkg == <<"/", "b", "a", "d", "p", "k", "g">>
S_a_oo_missing == <<"a", "/", ".", ".", "/", "m", "i", "s", "s", "i", "n", "g">>
S_o_nothere == <<".", "/", "n", "o", "t", "h", "e", "r", "e">>
S__nothere == <<"/", "n", "o", "t", "h", "e", "r", "e">>
S_o_sub_m == <<".", "/", "s", "u", "b", "/", "m">>
S_o_sub_w == <<".", "/", "s", "u", "b", "/", "w">>
S_o_goodojson == <<".", "/", "g", "o", "o", "d", ".", "j", "s", "o", "n">>
S_nat_sub == <<"n", "a", "t", "/", "s", "u", "b">>
S_nat_self == <<"n", "a", "t", "/", "s", "e", "l", "f">>
S__otherojs == <<"/", "o", "t", "h", "e", "r", ".", "j", "s">>
S__plain_subojs == <<"/", "p", "l", "a", "i", "n", "/", "s", "u", "b", ".", "j", "s">>
S_plain == <<"p", "l", "a", "i", "n">>
S_plain_sub == <<"p", "l", "a", "i", "n", "/", "s", "u", "b">>
S_nat_none == <<"n", "a", "t", "/", "n", "o", "n", "e">>
S_o_other == <<".", "/", "o", "t", "h", "e", "r">>
S_o_lib == <<".", "/", "l", "i", "b">>
S__svcojs == <<"/", "s", "v", "c", ".", "j", "s">>
S__libojs == <<"/", "l", "i", "b", ".", "j", "s">>
S_Resources_svcojs == <<"R", "e", "s", "o", "u", "r", "c", "e", "s", "/", "s", "v", "c", ".", "j", "s">>
S__svc == <<"/", "s", "v", "c">>
S_o_c2 == <<".", "/", "c", "2">>
S_o_c1 == <<".", "/", "c", "1">>
S__x_indexojs == <<"/", "x", "/", "i", "n", "d", "e", "x", ".", "j", "s">>
S__xesojs == <<"/", "x", "e", "s", ".", "j", "s">>
S__x_indexesojs == <<"/", "x", "/", "i", "n", "d", "e", "x", "e", "s", ".", "j", "s">>
S__c1ojs == <<"/", "c", "1", ".", "j", "s">>
S__c2ojs == <<"/", "c", "2", ".", "j", "s">>
S__badojs == <<"/", "b", "a", "d", ".", "j", "s">>
S__hyperloop_hlojs == <<"/", "h", "y", "p", "e", "r", "l", "o", "o", "p", "/", "h", "l", ".", "j", "s">>
S_app == <<"a", "p", "p">>
S__x == <<"/", "x">>
S__x_index == <<"/", "x", "/", "i", "n", "d", "e", "x">>
S__xes == <<"/", "x", "e", "s">>
S__x_indexes == <<"/", "x", "/", "i", "n", "d", "e", "x", "e", "s">>
S_c1 == <<"c", "1">>
S_bad == <<"b", "a", "d">>
S_hl == <<"h", "l">>

\* two modules that require each other
CircularFiles ==
       (S__appojs :> JsText(<<>>))
       @@ (S__aojs :> JsText(<<Set("val", 1), Req(S_o_b)>>))
       @@ (S__bojs :> JsText(<<Req(S_o_a), Get("sawVal", "val")>>))

Circular ==
  [loader |-> "kernel",
   files |-> CircularFiles,
   index |-> {ResourcesDir \o f : f \in DOMAIN CircularFiles},
   natives |-> <<>>,
   commonJsModules |-> {},
   commonJs |-> << >>,
   entries |-> {<<S_Resources_appojs, FALSE>>},
   requests |-> {S_o_a, S_o_b, S__a, S__bojs, S_a}]

\* directories with and without a package.json, one shadowed by a file
PackagesFiles ==
       (S__appojs :> JsText(<<>>))
       @@ (S__pkg_packageojson :> JsonText(S_lib_indexojs))
       @@ (S__pkg_lib_indexojs :> JsText(<<Set("val", 2)>>))
       @@ (S__shadowojs :> JsText(<<Set("val", 3)>>))
       @@ (S__shadow_packageojson :> JsonText(S_mainojs))
       @@ (S__shadow_mainojs :> JsText(<<Set("val", 4)>>))
       @@ (S__node_modules_dep_packageojson :> JsonText(S_o_main))
       @@ (S__node_modules_dep_mainojs :> JsText(<<Set("val", 5)>>))
       @@ (S__nomain_packageojson :> JsonText(Empty))
       @@ (S__nomain_indexojs :> JsText(<<Set("val", 6)>>))
       @@ (S__sub_userojs :> JsText(<<Req(S_dep), Get("sawVal", "val"), Req(S_oo_pkg)>>))
       @@ (S__json :> JsText(<<Set("val", 7)>>))
       @@ (S__broken_packageojson :> JsonText(S_missingojs))
       @@ (S__broken_indexojs :> JsText(<<Set("val", 8)>>))
       @@ (S__loop_packageojson :> JsonText(S_o_))
       @@ (S__data_indexojson :> JsonText(Empty))

Packages ==
  [loader |-> "kernel",
   files |-> PackagesFiles,
   index |-> {ResourcesDir \o f : f \in DOMAIN PackagesFiles},
   natives |-> <<>>,
   commonJsModules |-> {},
   commonJs |-> << >>,
   entries |-> {<<S_Resources_appojs, FALSE>>},
   requests |-> {S__pkg, S_pkg, S__shadow, S_shadow, S_dep, S_node_modules_dep, S__nomain, S_o_sub_user, S__pkg_lib_indexojs, S__nomain_index, S__json, S__broken, S__loop, S__data}]

\* names that several strategies of a bare require can find
StrategiesFiles ==
       (S__appojs :> JsText(<<Req(S_l)>>))
       @@ (S__nat_natojs :> JsText(<<Set("val", 1)>>))
       @@ (S__m_mojs :> JsText(<<Set("val", 2)>>))
       @@ (S__m_indexojs :> JsText(<<Set("val", 3)>>))
       @@ (S__node_modules_mojs :> JsText(<<Set("val", 4)>>))
       @@ (S__mojs :> JsText(<<Set("val", 5)>>))
       @@ (S__d_indexojs :> JsText(<<Set("val", 6)>>))
       @@ (S__node_modules_dojs :> JsText(<<Set("val", 7)>>))
       @@ (S__dojs :> JsText(<<Set("val", 8)>>))
       @@ (S__node_modules_nojs :> JsText(<<Set("val", 9)>>))
       @@ (S__nojs :> JsText(<<Set("val", 10)>>))
       @@ (S__lojs :> JsText(<<Set("val", 11)>>))
       @@ (S__node_modules_x_yojs :> JsText(<<Set("val", 12)>>))
       @@ (S__x_yojs :> JsText(<<Set("val", 13)>>))
       @@ (S__sub_node_modules_nojs :> JsText(<<Set("val", 14)>>))
       @@ (S__sub_deep_kojs :> JsText(<<Req(S_n), Req(S_l)>>))
       @@ (S__natojs :> JsText(<<Set("val", 15)>>))

Strategies ==
  [loader |-> "kernel",
   files |-> StrategiesFiles,
   index |-> {ResourcesDir \o f : f \in DOMAIN StrategiesFiles},
   natives |-> <<S_nat>>,
   commonJsModules |-> {},
   commonJs |-> << >>,
   entries |-> {<<S_Resources_appojs, FALSE>>},
   requests |-> {S_nat, S_m, S_d, S_n, S_l, S_x_y, S_o_sub_deep_k, S_none}]

\* bodies that throw, JSON that does not parse, names nothing provides
FailuresFiles ==
       (S__appojs :> JsText(<<>>))
       @@ (S__tojs :> JsText(<<Set("val", 1), Throw>>))
       @@ (S__uojs :> JsText(<<Req(S_o_t), Set("val", 9)>>))
       @@ (S__vojs :> JsText(<<Req(S_o_u), Set("val", 9)>>))
       @@ (S__badojson :> BadText)
       @@ (S__goodojson :> JsonText(Empty))
       @@ (S__usebadojs :> JsText(<<Req(S_o_badojson), Set("val", 9)>>))
       @@ (S__badpkg_packageojson :> BadText)
       @@ (S__badpkg_indexojs :> JsText(<<Set("val", 2)>>))
       @@ (S__ooxojs :> JsText(<<Set("val", 3)>>))
       @@ (S__sub_mojs :> JsText(<<Req(S_oox)>>))
       @@ (S__sub_wojs :> JsText(<<Req(S_missing_module), Set("val", 9)>>))

Failures ==
  [loader |-> "kernel",
   files |-> FailuresFiles,
   index |-> {ResourcesDir \o f : f \in DOMAIN FailuresFiles},
   natives |-> <<>>,
   commonJsModules |-> {},
   commonJs |-> << >>,
   entries |-> {<<S_Resources_appojs, FALSE>>},
   requests |-> {S_o_t, S_o_v, S_o_badojson, S__bad, S_o_usebad, S__badpkg, S_missing_module, S_a_oo_missing, S_o_nothere, S__nothere, S_o_sub_m, S_o_sub_w, S_o_goodojson}]

\* native modules, one with companion CommonJS scripts
NativesFiles ==
       (S__appojs :> JsText(<<>>))
       @@ (S__otherojs :> JsText(<<Req(S_nat), Req(S_nat_sub), Get("sawVal", "val")>>))
       @@ (S__plain_subojs :> JsText(<<Set("val", 2)>>))

Natives ==
  [loader |-> "kernel",
   files |-> NativesFiles,
   index |-> {ResourcesDir \o f : f \in DOMAIN NativesFiles},
   natives |-> <<S_nat, S_plain>>,
   commonJsModules |-> {S_nat},
   commonJs |-> (S_nat :> JsText(<<Set("ext", 7)>>))
       @@ (S_nat_sub :> JsText(<<Set("val", 1)>>))
       @@ (S_nat_self :> JsText(<<Req(S_nat_self)>>)),
   entries |-> {<<S_Resources_appojs, FALSE>>},
   requests |-> {S_nat, S_nat_sub, S_plain, S_plain_sub, S_nat_none, S_o_other, S_nat_self}]

\* a host that runs two scripts, one of them as a background service
EntriesFiles ==
       (S__appojs :> JsText(<<Req(S_o_lib)>>))
       @@ (S__svcojs :> JsText(<<Set("val", 1)>>))
       @@ (S__libojs :> JsText(<<Set("val", 2)>>))

Entries ==
  [loader |-> "kernel",
   files |-> EntriesFiles,
   index |-> {ResourcesDir \o f : f \in DOMAIN EntriesFiles},
   natives |-> <<>>,
   commonJsModules |-> {},
   commonJs |-> << >>,
   entries |-> {<<S_Resources_appojs, FALSE>>, <<S_Resources_svcojs, TRUE>>},
   requests |-> {S_o_lib, S__svc}]

\* the project the LiveView server serves: a body that throws, a text that does not
\* compile, a directory index, two files whose
\* names differ by '/index' in the middle, a hyperloop module, a native module
LiveViewFiles ==
       (S__appojs :> JsText(<<Req(S_o_u), Set("val", 1)>>))
       @@ (S__tojs :> JsText(<<Set("val", 1), Throw>>))
       @@ (S__uojs :> JsText(<<Req(S_o_t), Get("sawVal", "val"), Req(S_none), Set("val", 9)>>))
       @@ (S__x_indexojs :> JsText(<<Set("val", 3)>>))
       @@ (S__xesojs :> JsText(<<Set("val", 7)>>))
       @@ (S__x_indexesojs :> JsText(<<Set("val", 8)>>))
       @@ (S__c1ojs :> JsText(<<Set("val", 1), Req(S_o_c2)>>))
       @@ (S__c2ojs :> JsText(<<Req(S_o_c1), Get("sawVal", "val")>>))
       @@ (S__badojs :> BadText)
       @@ (S__hyperloop_hlojs :> JsText(<<Set("val", 5)>>))

LiveView ==
  [loader |-> "liveview",
   files |-> LiveViewFiles,
   index |-> {ResourcesDir \o f : f \in DOMAIN LiveViewFiles},
   natives |-> <<S_nat>>,
   commonJsModules |-> {},
   commonJs |-> << >>,
   entries |-> {},
   requests |-> {S_app, S__x, S__x_index, S__xes, S__x_indexes, S_c1, S_bad, S_nat, S_none, S_hl, S_o_t}]

Worlds == <<Circular, Packages, Strategies, Failures, Natives, Entries, LiveView>>

(***************************************************************************)
(* State of the kernel loader (bootstrap$2).                               *)
(***************************************************************************)
VARIABLES
  world,        \* the host: asset store, native bindings, what the host runs and requires
  fileIndex,    \* the lazily loaded index of the asset store
  indexReads,   \* how many times the index has been read from the asset store
  cache,        \* Module.cache: filename -> module record or native module
  modules,      \* every Module object created, in order of creation
  heap,         \* the objects modules export, native modules first
  mainModule,   \* Module.main (0 for null)
  globalRequire,\* the module whose require is global.require (0 while unset)
  stack,        \* the module bodies being executed, innermost last
  exc,          \* the error being thrown up the call chain
  outcome,      \* how the host's last call ended
  calls,        \* the number of calls the host has made
  evals,        \* the bodies that have been started, in order
  lastReq,      \* the last require call: who asked, for what, and what was tried
  returned,     \* the last require call that returned: what it resolved to and returned
  served,       \* every <<resolved id, value returned>> of the require calls so far
  op,           \* the step taken last
  compileList,  \* Module._compileList of LiveView: the ids of the modules being compiled
  emitted,      \* the uncaughtException events LiveView has emitted
  lvReq,        \* the last call of LiveView's Module.require
  pathFn,       \* the function of the path library that has been called ("none": none yet)
  pathSep,      \* the separator of the namespace it is called in (path.posix, path.win32)
  pathArgs,     \* the arguments of the call
  pathOut,      \* how the call ended
  appEntry,     \* the script the application starts with: the login screen or the calculator
  loginOpen,    \* whether the login window is open
  emailValue,   \* emailInput.value of the login window that is open (empty with none)
  passwordValue,\* passwordInput.value of the login window that is open (empty with none)
  alertShown,   \* whether the alert dialog is showing
  calcOpen,     \* whether the calculator window is open
  currentInput, \* currentInput of the calculator that is open (empty with none)
  displayText,  \* displayLabel.text of the calculator that is open (empty with none)
  pressed       \* the button whose click listener ran last, with what it found

\* the host the loader runs in
Host == world

kernelVars == <<world, fileIndex, indexReads, cache, modules, heap, mainModule,
                globalRequire, stack, exc, outcome, calls, evals, lastReq, returned,
                served, op>>

lvVars == <<compileList, emitted, lvReq>>

pathVars == <<pathFn, pathSep, pathArgs, pathOut>>

appVars == <<appEntry, loginOpen, emailValue, passwordValue, alertShown, calcOpen,
             currentInput, displayText, pressed>>

\* what no step of a module loader touches
restVars == <<pathVars, appVars>>

\* bounds of the model
MaxCalls == 3
MaxDepth == 4

\* The part of the state that resolution reads and writes, threaded through its calls.
LoaderState ==
  [fileIndex |-> fileIndex, indexReads |-> indexReads, cache |-> cache,
   modules |-> modules, heap |-> heap, globalRequire |-> globalRequire,
   log |-> << >>, reads |-> << >>, trace |-> << >>]

\* what a call does with the asset store and the cache, in the order it does it: "index"
\* reads the file index, "exists" looks a filename up in it, "read" reads an asset and
\* "cache" assigns Module.cache[f]
Event(st, e, f) == [st EXCEPT !.trace = Append(@, [e |-> e, f |-> f])]

\* Results of the loader's functions: null, a cache entry, a value, an error thrown,
\* or a module body entered (the call is suspended until the body has run).
Res(st, t) ==
  [st |-> st, t |-> t, entry |-> [native |-> FALSE, i |-> 0], v |-> 0, file |-> Empty,
   err |-> NoError, m |-> 0, body |-> << >>, wrapped |-> TRUE,
   kont |-> [k |-> "text", self |-> 0, id |-> Empty, wrapper |-> 0]]
Null(st) == Res(st, "null")
Found(st, entry, file) == [Res(st, "mod") EXCEPT !.entry = entry, !.file = file]
Value(st, v, file) == [Res(st, "ref") EXCEPT !.v = v, !.file = file]
Thrown(st, err) == [Res(st, "throw") EXCEPT !.err = err]
Entered(st, m, body, wrapped, kont) ==
  [Res(st, "enter") EXCEPT !.m = m, !.body = body, !.wrapped = wrapped, !.kont = kont,
                           !.file = st.modules[m].filename]

Kont(k, self, id, wrapper) == [k |-> k, self |-> self, id |-> id, wrapper |-> wrapper]

ModuleEntry(m) == [native |-> FALSE, i |-> m]
NativeEntry(ref) == [native |-> TRUE, i |-> ref]

\* loaded.exports of a cache entry (a native module has no exports property)
ExportsOf(st, entry) == IF entry.native THEN 0 ELSE st.modules[entry.i].exports

\* assets.readAsset(filename)
readAsset(filename) == Host.files[filename]

\* new Module(id, parent): the record, with a fresh empty exports object
NewModule(st, id, parent) ==
  [st EXCEPT
     !.heap = Append(@, EmptyObject),
     !.modules = Append(@,
        [id |-> id, exports |-> Len(st.heap) + 1, parent |-> parent, filename |-> Empty,
         path |-> Empty, paths |-> << >>, loaded |-> FALSE, wrapperCache |-> << >>,
         isService |-> FALSE])]

\* this.wrapperCache[id], 0 when absent
WrapperOf(st, self, id) ==
  IF id \in DOMAIN st.modules[self].wrapperCache THEN st.modules[self].wrapperCache[id] ELSE 0

(***************************************************************************)
(* The native binding provider of the host.                                *)
(***************************************************************************)
\* kroll.externalBinding(name): the native object, 0 when there is none
externalBinding(name) ==
  IF \E i \in 1..Len(Host.natives) : Host.natives[i] = name
  THEN CHOOSE i \in 1..Len(Host.natives) : Host.natives[i] = name
  ELSE 0

isExternalCommonJsModule(name) == name \in Host.commonJsModules

\* kroll.getExternalCommonJsModule(id): the script's text, absent when there is none
hasExternalCommonJsModule(id) == id \in DOMAIN Host.commonJs
getExternalCommonJsModule(id) == Host.commonJs[id]

\* kroll.extend(thisObject, otherObject): copies the own properties of otherObject
extend(st, thisRef, otherRef) ==
  IF otherRef = 0 \/ thisRef = 0 THEN st
  ELSE [st EXCEPT !.heap[thisRef] =
         [vals |-> [k \in Keys |-> IF st.heap[otherRef].vals[k] # 0
                                   THEN st.heap[otherRef].vals[k] ELSE @.vals[k]],
          main |-> IF st.heap[otherRef].main # Empty THEN st.heap[otherRef].main ELSE @.main]]

(***************************************************************************)
(* Module of the kernel loader.  Every operator takes the loader state st  *)
(* and returns a result that carries the state it leaves; d is the depth   *)
(* of the JavaScript call chain, which the engine bounds.                  *)
(***************************************************************************)
Attempt(st, s, p) == [st EXCEPT !.log = Append(@, [s |-> s, p |-> p])]

filenameExistsRereading(st, filename0) ==
  LET filename == ResourcesDir \o filename0
      st1 == [Event(st, "index", Empty)
                EXCEPT !.fileIndex = [loaded |-> TRUE, keys |-> Host.index],
                       !.indexReads = @ + 1]
  IN [st |-> Event(st1, "exists", filename0), v |-> filename \in st1.fileIndex.keys]

\* filenameExists(filename): "if (!fileIndex) { ... fileIndex = JSON.parse(json) }", then
\* "filename in fileIndex" for 'Resources' + filename
filenameExists(st, filename0) ==
  LET filename == ResourcesDir \o filename0
      st1 == IF ~st.fileIndex.loaded
             THEN [Event(st, "index", Empty)
                     EXCEPT !.fileIndex = [loaded |-> TRUE, keys |-> Host.index],
                            !.indexReads = @ + 1]
             ELSE st
  IN [st |-> Event(st1, "exists", filename0), v |-> filename \in st1.fileIndex.keys]

RECURSIVE nodeModulesLoopKeepingAll(_, _, _)
nodeModulesLoopKeepingAll(parts, i, dirs) ==
  IF i < 0 THEN dirs
  ELSE IF parts[i + 1] = Empty
       THEN nodeModulesLoopKeepingAll(parts, i - 1, dirs)
       ELSE nodeModulesLoopKeepingAll(parts, i - 1,
              Append(dirs, join(Slash, <<JoinStr(SubSeq(parts, 1, i + 1), Slash), NodeModules>>)))

\* the loop "while (i >= 0)" of nodeModulesPaths
RECURSIVE nodeModulesLoop(_, _, _)
nodeModulesLoop(parts, i, dirs) ==
  IF i < 0 THEN dirs
  ELSE IF parts[i + 1] = NodeModules \/ parts[i + 1] = Empty
       THEN nodeModulesLoop(parts, i - 1, dirs)
       ELSE nodeModulesLoop(parts, i - 1,
              Append(dirs, join(Slash, <<JoinStr(SubSeq(parts, 1, i + 1), Slash), NodeModules>>)))

\* nodeModulesPaths once startDir is resolved and split
nodeModulesDirs(startDir, parts) ==
  IF startDir = Slash THEN <<RootNodeModules>>
  ELSE Append(nodeModulesLoop(parts, Len(parts) - 1, << >>), RootNodeModules)

nodeModulesFrom(startDir) == nodeModulesDirs(startDir, Split(startDir, "/"))

nodeModulesPaths(startDir0) == nodeModulesFrom(resolve(Slash, <<startDir0>>))

runScriptUnwrappingServices(st, m, source, kont) ==
  IF st.modules[m].id = MainModuleId
  THEN Entered([st EXCEPT !.globalRequire = m], m, ScriptBody(source), FALSE, kont)
  ELSE Entered(st, m, ScriptBody(source), TRUE, kont)

\* _runScript: the entry module runs unwrapped in the global scope, and its require
\* becomes global.require; every other module runs inside the wrapper function
runScript(st, m, source, kont) ==
  IF st.modules[m].id = MainModuleId /\ ~st.modules[m].isService
  THEN Entered([st EXCEPT !.globalRequire = m], m, ScriptBody(source), FALSE, kont)
  ELSE Entered(st, m, ScriptBody(source), TRUE, kont)

\* "this.filename = filename; this.path = ...; this.paths = ..." of load
setPaths(st, m, filename, path) ==
  [st EXCEPT !.modules[m].filename = filename,
             !.modules[m].path = path,
             !.modules[m].paths = nodeModulesPaths(path)]

\* "if (!source) source = assets.readAsset(filename)" of load: the read is logged
readSource(st, filename, hasSource) ==
  IF hasSource THEN st ELSE [Event(st, "read", filename) EXCEPT !.reads = Append(@, filename)]

\* load that runs the script without putting the module in the cache first
cacheNothing(st, m, filename) == st

\* "Module.cache[this.filename] = this" of load
cacheModule(st, m, filename) ==
  [Event(st, "cache", filename) EXCEPT !.cache = (filename :> ModuleEntry(m)) @@ @]

\* module.load(filename, source); hasSource is false when the caller passes no source
load(st, m, filename, hasSource, source0, kont, d) ==
  IF d >= MaxDepth THEN Thrown(st, Error("RangeError", Empty))
  ELSE IF st.modules[m].loaded THEN Thrown(st, Error("AlreadyLoaded", filename))
  ELSE runScript(
         cacheModule(
           readSource(setPaths(st, m, filename, dirname(Slash, filename)), filename, hasSource),
           m, filename),
         m, IF hasSource THEN source0 ELSE readAsset(filename), kont)

loadJavascriptTextUncached(st, self, filename, d) ==
  LET st1 == NewModule(st, filename, self)
  IN load(st1, Len(st1.modules), filename, FALSE, BadText,
          Kont("text", self, filename, 0), d)

\* loadJavascriptText(filename): the cached module, or a new one that is loaded
loadJavascriptText(st, self, filename, d) ==
  IF filename \in DOMAIN st.cache THEN Found(st, st.cache[filename], filename)
  ELSE LET st1 == NewModule(st, filename, self)
       IN load(st1, Len(st1.modules), filename, FALSE, BadText,
               Kont("text", self, filename, 0), d)

\* "module.exports = JSON.parse(source); module.loaded = true" of loadJavascriptObject
parseObject(st, m, filename, source) ==
  IF source.kind # "json" THEN Thrown(st, Error("SyntaxError", filename))
  ELSE Found([st EXCEPT !.heap = Append(@, [EmptyObject EXCEPT !.main = source.main]),
                        !.modules[m].exports = Len(st.heap) + 1,
                        !.modules[m].loaded = TRUE],
             ModuleEntry(m), filename)

loadJavascriptObjectCacheFirst(st, self, filename) ==
  IF filename \in DOMAIN st.cache THEN Found(st, st.cache[filename], filename)
  ELSE LET st1 == NewModule(st, filename, self)
           m == Len(st1.modules)
       IN parseObject([Event(Event(st1, "cache", filename), "read", filename)
                         EXCEPT !.modules[m].filename = filename,
                                !.modules[m].path = dirname(Slash, filename),
                                !.reads = Append(@, filename),
                                !.cache = (filename :> ModuleEntry(m)) @@ @],
                      m, filename, readAsset(filename))

\* loadJavascriptObject(filename): "source = assets.readAsset(...)", then
\* "Module.cache[filename] = module", then the parse
loadJavascriptObject(st, self, filename) ==
  IF filename \in DOMAIN st.cache THEN Found(st, st.cache[filename], filename)
  ELSE LET st1 == NewModule(st, filename, self)
           m == Len(st1.modules)
       IN parseObject([Event(Event(st1, "read", filename), "cache", filename)
                         EXCEPT !.modules[m].filename = filename,
                                !.modules[m].path = dirname(Slash, filename),
                                !.reads = Append(@, filename),
                                !.cache = (filename :> ModuleEntry(m)) @@ @],
                      m, filename, readAsset(filename))

loadAsFileJsonFirst(st, self, id, d) ==
  LET e1 == filenameExists(st, id)
      e2 == filenameExists(e1.st, id \o ExtJson)
      e3 == filenameExists(e2.st, id \o ExtJs)
  IN IF e1.v
     THEN IF Len(id) > 5 /\ SliceLast(id, 4) = Json
          THEN loadJavascriptObject(e1.st, self, id)
          ELSE loadJavascriptText(e1.st, self, id, d)
     ELSE IF e2.v THEN loadJavascriptObject(e2.st, self, id \o ExtJson)
     ELSE IF e3.v THEN loadJavascriptText(e3.st, self, id \o ExtJs, d)
     ELSE Null(e3.st)

loadAsFile(st, self, id, d) ==
  LET e1 == filenameExists(st, id)
      e2 == filenameExists(e1.st, id \o ExtJs)
      e3 == filenameExists(e2.st, id \o ExtJson)
  IN IF e1.v
     THEN IF Len(id) > 5 /\ SliceLast(id, 4) = Json
          THEN loadJavascriptObject(e1.st, self, id)
          ELSE loadJavascriptText(e1.st, self, id, d)
     ELSE IF e2.v THEN loadJavascriptText(e2.st, self, id \o ExtJs, d)
     ELSE IF e3.v THEN loadJavascriptObject(e3.st, self, id \o ExtJson)
     ELSE Null(e3.st)

\* the index.js and index.json candidates of loadAsDirectory
loadIndexFilesJsonFirst(st, self, js, json, d) ==
  LET e2 == filenameExists(st, json)
      e3 == filenameExists(e2.st, js)
  IN IF e2.v THEN loadJavascriptObject(e2.st, self, json)
     ELSE IF e3.v THEN loadJavascriptText(e3.st, self, js, d)
     ELSE Null(e3.st)

loadIndexFiles(st, self, js, json, d) ==
  LET e2 == filenameExists(st, js)
      e3 == filenameExists(e2.st, json)
  IN IF e2.v THEN loadJavascriptText(e2.st, self, js, d)
     ELSE IF e3.v THEN loadJavascriptObject(e3.st, self, json)
     ELSE Null(e3.st)

loadIndex(st, self, id, d) ==
  loadIndexFiles(st, self, resolve(Slash, <<id, IndexJs>>), resolve(Slash, <<id, IndexJson>>), d)

RECURSIVE loadAsFileOrDirectory(_, _, _, _)

\* loadAsDirectory that does not look at the main field of package.json
loadPackageIgnoringMain(e1, object, self, id, d) ==
  IF e1.v /\ object.t = "throw" THEN object
  ELSE loadIndex(IF e1.v THEN object.st ELSE e1.st, self, id, d)

\* loadAsDirectory that goes on to the index files when main leads to nothing
loadPackageFallingBack(e1, object, self, id, d) ==
  LET main == IF object.t = "mod" /\ ExportsOf(object.st, object.entry) # 0
              THEN object.st.heap[ExportsOf(object.st, object.entry)].main
              ELSE Empty
      loaded == loadAsFileOrDirectory(object.st, self, resolve(Slash, <<id, main>>), d + 1)
  IN IF e1.v /\ object.t = "throw" THEN object
     ELSE IF e1.v /\ main # Empty
     THEN IF d >= MaxDepth THEN Thrown(object.st, Error("RangeError", Empty))
          ELSE IF loaded.t = "null" THEN loadIndex(loaded.st, self, id, d)
          ELSE loaded
     ELSE loadIndex(IF e1.v THEN object.st ELSE e1.st, self, id, d)

\* loadAsDirectory once package.json has been looked up (e1) and, if there, loaded
\* (object); the recursion through main ends when the engine's stack has run out
loadPackage(e1, object, self, id, d) ==
  LET main == IF object.t = "mod" /\ ExportsOf(object.st, object.entry) # 0
              THEN object.st.heap[ExportsOf(object.st, object.entry)].main
              ELSE Empty
  IN IF e1.v /\ object.t = "throw" THEN object
     ELSE IF e1.v /\ main # Empty
     THEN IF d >= MaxDepth THEN Thrown(object.st, Error("RangeError", Empty))
          ELSE loadAsFileOrDirectory(object.st, self, resolve(Slash, <<id, main>>), d + 1)
     ELSE loadIndex(IF e1.v THEN object.st ELSE e1.st, self, id, d)

loadPackageJson(e1, self, id, filename, d) ==
  loadPackage(e1, loadJavascriptObject(e1.st, self, filename), self, id, d)

loadAsDirectoryAt(st, self, id, filename, d) ==
  loadPackageJson(filenameExists(st, filename), self, id, filename, d)

loadAsDirectory(st, self, id, d) ==
  loadAsDirectoryAt(st, self, id, resolve(Slash, <<id, PackageJson>>), d)

\* "if (loaded) return loaded; return this.loadAsDirectory(normalizedPath)"
orLoadAsDirectory(loaded, self, normalizedPath, d) ==
  IF loaded.t # "null" THEN loaded
  ELSE loadAsDirectory(loaded.st, self, normalizedPath, d)

loadAsFileOrDirectory(st, self, normalizedPath, d) ==
  orLoadAsDirectory(loadAsFile(st, self, normalizedPath, d), self, normalizedPath, d)

RECURSIVE loadNodeModules(_, _, _, _, _)

\* "if (mod) return mod" of the loop of loadNodeModules
orNextNodeModules(mod, self, moduleId, dirs, d) ==
  IF mod.t # "null" THEN mod
  ELSE loadNodeModules(mod.st, self, moduleId, Tail(dirs), d)

loadNodeModulesAt(st, self, moduleId, dirs, candidate, d) ==
  orNextNodeModules(
    loadAsFileOrDirectory(Attempt(st, "node_modules", candidate), self, candidate, d),
    self, moduleId, dirs, d)

loadNodeModules(st, self, moduleId, dirs, d) ==
  IF dirs = << >> THEN Null(st)
  ELSE loadNodeModulesAt(st, self, moduleId, dirs, join(Slash, <<Head(dirs), moduleId>>), d)

\* extendModuleWithCommonJs and the end of loadExternalModule that follows it
extendModuleWithCommonJs(st, self, wrapper, id, d) ==
  IF ~isExternalCommonJsModule(id)
  THEN Value([st EXCEPT !.modules[self].wrapperCache = (id :> wrapper) @@ @], wrapper, id)
  ELSE LET st1 == NewModule(st, id \o CommonJsSuffix, self)
       IN load(st1, Len(st1.modules), id \o CommonJsSuffix, TRUE,
               getExternalCommonJsModule(id), Kont("extend", self, id, wrapper), d)

loadExternalModule(st, self, id, externalBinding0, d) ==
  LET externalModule == IF id \in DOMAIN st.cache THEN st.cache[id]
                        ELSE NativeEntry(externalBinding0)
      st1 == [Event(st, "cache", id) EXCEPT !.cache = (id :> externalModule) @@ @]
      cached == WrapperOf(st1, self, id)
      wrapper == IF externalModule.native THEN externalModule.i
                 ELSE st1.modules[externalModule.i].exports
  IN IF cached # 0 THEN Value(st1, cached, id)
     ELSE extendModuleWithCommonJs(st1, self, wrapper, id, d)

loadCoreModuleRootOnly(st, self, id, d) ==
  LET parts == Split(id, "/")
      binding == externalBinding(parts[1])
  IN IF id = Empty \/ StartsWith(id, Dot) \/ StartsWith(id, Slash) THEN Null(st)
     ELSE IF WrapperOf(st, self, id) # 0 THEN Value(st, WrapperOf(st, self, id), id)
     ELSE IF binding = 0 THEN Null(st)
     ELSE IF Len(parts) = 1 THEN loadExternalModule(st, self, parts[1], binding, d)
     ELSE Null(st)

loadCoreModule(st, self, id, d) ==
  LET parts == Split(id, "/")
      binding == externalBinding(parts[1])
  IN IF id = Empty \/ StartsWith(id, Dot) \/ StartsWith(id, Slash) THEN Null(st)
     ELSE IF WrapperOf(st, self, id) # 0 THEN Value(st, WrapperOf(st, self, id), id)
     ELSE IF binding = 0 THEN Null(st)
     ELSE IF Len(parts) = 1 THEN loadExternalModule(st, self, parts[1], binding, d)
     ELSE IF isExternalCommonJsModule(parts[1]) /\ hasExternalCommonJsModule(id)
          THEN LET st1 == NewModule(st, id, self)
               IN load(st1, Len(st1.modules), id, TRUE, getExternalCommonJsModule(id),
                       Kont("core", self, id, 0), d)
     ELSE Null(st)

\* the error of require naming the path that was tried last rather than the request
NotFoundNamingPath(st, request) ==
  Thrown(st, Error("ModuleNotFound", normalize(Slash, Slash \o request)))

\* "throw new Error(`Requested module not found: ${request}`)" of require
NotFound(st, request) == Thrown(st, Error("ModuleNotFound", request))

\* "if (loaded) return loaded.exports" of require
AsExports(loaded) ==
  IF loaded.t = "mod"
  THEN Value(loaded.st, ExportsOf(loaded.st, loaded.entry), loaded.file)
  ELSE loaded

\* "if (loaded) return loaded.exports" of the last attempt of require, and its throw
orNotFound(loaded, request) ==
  IF loaded.t # "null" THEN AsExports(loaded) ELSE NotFound(loaded.st, request)

\* the legacy fallback of require: the request taken as an absolute path
requireLegacy(st, self, request, legacy, d) ==
  orNotFound(loadAsFileOrDirectory(Attempt(st, "legacy", legacy), self, legacy, d), request)

orLegacy(loaded, self, request, d) ==
  IF loaded.t # "null" THEN AsExports(loaded)
  ELSE requireLegacy(loaded.st, self, request, normalize(Slash, Slash \o request), d)

\* the end of require for a bare request: node_modules, then the legacy absolute path
requireNodeModules(st, self, request, d) ==
  orLegacy(loadNodeModules(st, self, request, st.modules[self].paths, d), self, request, d)

\* the look-ups of require that only a request without '/' gets: the asset
\* /<request>/<request>.js, then /<request> as a directory
loadCommonJs(st, self, request, filename, d) ==
  LET e == filenameExists(Attempt(st, "sibling", filename), filename)
  IN IF IndexOf(request, "/") # -1 THEN Null(st)
     ELSE IF e.v THEN loadJavascriptText(e.st, self, filename, d)
     ELSE loadAsDirectory(Attempt(e.st, "directory", Slash \o request),
                          self, Slash \o request, d)

orNodeModules(loaded, self, request, d) ==
  IF loaded.t # "null" THEN AsExports(loaded)
  ELSE requireNodeModules(loaded.st, self, request, d)

\* "if (loaded) return loaded" of require for a core module, and what follows it
orCommonJs(core, self, request, d) ==
  IF core.t # "null" THEN core
  ELSE orNodeModules(
         loadCommonJs(core.st, self, request, Slash \o request \o Slash \o request \o ExtJs, d),
         self, request, d)

\* the path branches of require: relative to this.path, and from the root
requirePath(st, self, request, s, filename, d) ==
  orNotFound(loadAsFileOrDirectory(Attempt(st, s, filename), self, filename, d), request)

require(st, self, request, d) ==
  IF Substring0(request, 2) = DotSlash \/ Substring0(request, 2) = DotDot
     \/ Substring0(request, 1) = Slash
  THEN requirePath(st, self, request,
         IF Substring0(request, 1) = Slash THEN "absolute" ELSE "relative",
         IF Substring0(request, 1) = Slash THEN normalize(Slash, request)
         ELSE normalize(Slash, st.modules[self].path \o Slash \o request), d)
  ELSE orCommonJs(loadCoreModule(Attempt(st, "core", request), self, request, d),
                  self, request, d)

\* filename.replace('Resources/', '/'): the first occurrence only
RECURSIVE ReplaceResources(_)
ReplaceResources(s) ==
  IF s = Empty THEN Empty
  ELSE IF StartsWith(s, ResourcesDir \o Slash)
       THEN Slash \o SliceFrom(s, Len(ResourcesDir) + 1)
       ELSE <<Head(s)>> \o ReplaceResources(Tail(s))

(***************************************************************************)
(* Steps of the kernel loader.                                             *)
(***************************************************************************)
NoOutcome == [kind |-> "none", v |-> 0, err |-> NoError]
Pending == [kind |-> "pending", v |-> 0, err |-> NoError]
Returned(v) == [kind |-> "return", v |-> v, err |-> NoError]
RanModule(m) == [kind |-> "module", v |-> m, err |-> NoError]
Failed(err) == [kind |-> "error", v |-> 0, err |-> err]

NoRequest ==
  [self |-> 0, request |-> Empty, log |-> << >>, reads |-> << >>, trace |-> << >>,
   depth |-> 0, t |-> "none", v |-> 0, m |-> 0, file |-> Empty, fresh |-> FALSE,
   err |-> NoError]
NoReturn == [self |-> 0, request |-> Empty, file |-> Empty, v |-> 0]

\* the frame of a body entered by call r, made by require(request) of module self
\* (self is 0 when the host's runModule made it)
Frame(r, self, request) ==
  [m |-> r.m, body |-> r.body, pc |-> 1, last |-> 0, wrapped |-> r.wrapped,
   exports |-> r.st.modules[r.m].exports, kont |-> r.kont,
   self |-> self, request |-> request]

\* the stack once value v is handed to the caller of the call that has ended
Resume(callers, v) ==
  IF callers = << >> THEN callers
  ELSE [callers EXCEPT ![Len(callers)].last = v, ![Len(callers)].pc = @ + 1]

\* the loader state a call leaves
Store(st) ==
  /\ fileIndex' = st.fileIndex
  /\ indexReads' = st.indexReads
  /\ cache' = st.cache
  /\ modules' = st.modules
  /\ heap' = st.heap
  /\ globalRequire' = st.globalRequire

\* a require call of module self has returned v for the module it resolved to
Serve(self, request, file, v) ==
  /\ returned' = [self |-> self, request |-> request, file |-> file, v |-> v]
  /\ served' = served \cup {<<file, v>>}

\* the end of call r, made from the innermost of callers (by the host when there is none)
\* as require(request) of module self (self is 0 for runModule)
Finish(r, callers, out, self, request) ==
  /\ Store(r.st)
  /\ IF r.t = "enter"
     THEN /\ stack' = Append(callers, Frame(r, self, request))
          /\ evals' = Append(evals, [file |-> r.file, m |-> r.m, host |-> self = 0])
          /\ exc' = NoError
          /\ outcome' = out
          /\ UNCHANGED <<returned, served>>
     ELSE IF r.t = "throw"
     THEN /\ stack' = callers
          /\ evals' = evals
          /\ exc' = IF callers = << >> THEN NoError ELSE r.err
          /\ outcome' = IF callers = << >> THEN Failed(r.err) ELSE out
          /\ UNCHANGED <<returned, served>>
     ELSE /\ stack' = Resume(callers, r.v)
          /\ evals' = evals
          /\ exc' = NoError
          /\ outcome' = IF callers = << >> THEN Returned(r.v) ELSE out
          /\ Serve(self, request, r.file, r.v)

Record(self, request, r) ==
  lastReq' = [self |-> self, request |-> request, log |-> r.st.log, reads |-> r.st.reads,
              trace |-> r.st.trace, depth |-> Len(stack),
              t |-> r.t, v |-> r.v, m |-> r.m, file |-> r.file,
              fresh |-> r.file \notin DOMAIN cache, err |-> r.err]

Idle == stack = << >> /\ exc = NoError /\ calls < MaxCalls

\* Module.runModule(source, filename), called by the host
RunModule(filename0, isService) ==
  /\ Idle /\ Host.loader = "kernel"
  /\ <<filename0, isService>> \in Host.entries
  /\ LET id == IF mainModule = 0 THEN MainModuleId ELSE filename0
         st1 == NewModule(LoaderState, id, 0)
         m == Len(st1.modules)
         st2 == [st1 EXCEPT !.modules[m].isService = isService]
         filename == ReplaceResources(filename0)
         r == load(st2, m, filename, TRUE, Host.files[filename], Kont("entry", 0, Empty, 0), 0)
     IN /\ mainModule' = IF mainModule = 0 THEN m ELSE mainModule
        /\ Finish(r, << >>, Pending, 0, Empty)
  /\ calls' = calls + 1
  /\ op' = "RunModule"
  /\ UNCHANGED <<lvVars, restVars>>
  /\ UNCHANGED <<world, lastReq>>

\* global.require(request), called by the host once the entry module has set it
GlobalRequire(request) ==
  /\ Idle /\ Host.loader = "kernel"
  /\ globalRequire # 0
  /\ request \in Host.requests
  /\ LET Called(r) ==
           Finish(r, << >>, Pending, globalRequire, request) /\ Record(globalRequire, request, r)
     IN Called(require(LoaderState, globalRequire, request, 0))
  /\ calls' = calls + 1
  /\ op' = "GlobalRequire"
  /\ UNCHANGED <<lvVars, restVars>>
  /\ UNCHANGED <<world, mainModule>>

Running == stack # << >> /\ exc = NoError
Top == stack[Len(stack)]
Statement == Top.body[Top.pc]

\* a body assigns a property of its exports
ExecAssign ==
  /\ Running /\ Top.pc <= Len(Top.body)
  /\ Statement.op \in {"set", "get"}
  /\ IF ~Top.wrapped
     THEN /\ exc' = Error("ReferenceError", modules[Top.m].filename)
          /\ UNCHANGED <<heap, stack>>
     ELSE IF Statement.op = "get" /\ Top.last = 0
     THEN /\ exc' = Error("TypeError", modules[Top.m].filename)
          /\ UNCHANGED <<heap, stack>>
     ELSE /\ heap' = [heap EXCEPT ![Top.exports].vals[Statement.key] =
                        IF Statement.op = "set" THEN Statement.n
                        ELSE heap[Top.last].vals[Statement.from]]
          /\ stack' = [stack EXCEPT ![Len(stack)].pc = @ + 1]
          /\ exc' = exc
  /\ op' = "ExecAssign"
  /\ UNCHANGED <<lvVars, restVars>>
  /\ UNCHANGED <<world, fileIndex, indexReads, cache, modules, mainModule, globalRequire,
                 outcome, calls, evals, lastReq, returned, served>>

\* a body calls require
ExecRequire ==
  /\ Running /\ Top.kont.k # "lv" /\ Top.pc <= Len(Top.body)
  /\ Statement.op = "req"
  /\ LET Called(r) ==
           Finish(r, stack, outcome, Top.m, Statement.spec) /\ Record(Top.m, Statement.spec, r)
     IN Called(require(LoaderState, Top.m, Statement.spec, Len(stack)))
  /\ op' = "ExecRequire"
  /\ UNCHANGED <<lvVars, restVars>>
  /\ UNCHANGED <<world, mainModule, calls>>

\* a body throws
ExecThrow ==
  /\ Running /\ Top.pc <= Len(Top.body)
  /\ Statement.op = "throw"
  /\ exc' = Error("ModuleBodyError", modules[Top.m].filename)
  /\ op' = "ExecThrow"
  /\ UNCHANGED <<lvVars, restVars>>
  /\ UNCHANGED <<world, fileIndex, indexReads, cache, modules, heap, mainModule,
                 globalRequire, stack, outcome, calls, evals, lastReq, returned, served>>

\* a body has run to its end: load sets loaded, and the call that loaded it returns
Return ==
  /\ Running /\ Top.kont.k # "lv" /\ Top.pc > Len(Top.body)
  /\ LET k == Top.kont
         callers == SubSeq(stack, 1, Len(stack) - 1)
         st1 == [LoaderState EXCEPT !.modules[Top.m].loaded = TRUE]
         st2 == IF k.k = "extend"
                THEN [extend(st1, k.wrapper, st1.modules[Top.m].exports)
                        EXCEPT !.modules[k.self].wrapperCache = (k.id :> k.wrapper) @@ @]
                ELSE st1
         v == IF k.k = "extend" THEN k.wrapper ELSE st2.modules[Top.m].exports
         file == IF k.k = "extend" THEN k.id ELSE modules[Top.m].filename
     IN /\ Store(st2)
        /\ stack' = Resume(callers, v)
        /\ outcome' = IF callers # << >> THEN outcome
                      ELSE IF k.k = "entry" THEN RanModule(Top.m) ELSE Returned(v)
        /\ IF k.k = "entry" THEN UNCHANGED <<returned, served>>
           ELSE Serve(Top.self, Top.request, file, v)
  /\ op' = "Return"
  /\ UNCHANGED <<lvVars, restVars>>
  /\ UNCHANGED <<world, mainModule, exc, calls, evals, lastReq>>

\* a loader that catches the error of a body and lets its require return the exports
PropagateCaught ==
  /\ stack # << >> /\ exc # NoError /\ Top.kont.k # "lv"
  /\ stack' = Resume(SubSeq(stack, 1, Len(stack) - 1), Top.exports)
  /\ exc' = NoError
  /\ outcome' = IF Len(stack) = 1 THEN Returned(Top.exports) ELSE outcome
  /\ op' = "Propagate"
  /\ UNCHANGED <<lvVars, restVars>>
  /\ UNCHANGED <<world, fileIndex, indexReads, cache, modules, heap, mainModule,
                 globalRequire, calls, evals, lastReq, returned, served>>

\* an error leaves the body it was thrown in, or passed through, uncaught
Propagate ==
  /\ stack # << >> /\ exc # NoError /\ Top.kont.k # "lv"
  /\ stack' = SubSeq(stack, 1, Len(stack) - 1)
  /\ exc' = IF Len(stack) = 1 THEN NoError ELSE exc
  /\ outcome' = IF Len(stack) = 1 THEN Failed(exc) ELSE outcome
  /\ op' = "Propagate"
  /\ UNCHANGED <<lvVars, restVars>>
  /\ UNCHANGED <<world, fileIndex, indexReads, cache, modules, heap, mainModule,
                 globalRequire, calls, evals, lastReq, returned, served>>

(***************************************************************************)
(* The LiveView loader: the Module of the live-reload client, which takes  *)
(* the place of require.  Its modules come from the LiveView file server;  *)
(* what the server does not have is left to the native require.            *)
(***************************************************************************)
IndexSuffix == <<"/", "i", "n", "d", "e", "x">>
hlDir == <<"/", "h", "y", "p", "e", "r", "l", "o", "o", "p", "/">>
DotStar == <<".", "*">>
Dollar == <<"$">>
AppId == <<"a", "p", "p">>

\* s.indexOf(p) for a string p
IndexOfString(s, p) ==
  LET hits == {i \in 0..(Len(s) - Len(p)) : SubSeq(s, i + 1, i + Len(p)) = p}
  IN IF hits = {} THEN -1 ELSE SetMin(hits)

\* s.replace(p, r) for a string p: the first occurrence only
ReplaceFirst(s, p, r) ==
  IF IndexOfString(s, p) = -1 THEN s
  ELSE Slice(s, 0, IndexOfString(s, p)) \o r \o SliceFrom(s, IndexOfString(s, p) + Len(p))

LowerOf ==
  ("A" :> "a") @@ ("B" :> "b") @@ ("C" :> "c") @@ ("D" :> "d") @@ ("E" :> "e")
  @@ ("F" :> "f") @@ ("G" :> "g") @@ ("H" :> "h") @@ ("I" :> "i") @@ ("J" :> "j")
  @@ ("K" :> "k") @@ ("L" :> "l") @@ ("M" :> "m") @@ ("N" :> "n") @@ ("O" :> "o")
  @@ ("P" :> "p") @@ ("Q" :> "q") @@ ("R" :> "r") @@ ("S" :> "s") @@ ("T" :> "t")
  @@ ("U" :> "u") @@ ("V" :> "v") @@ ("W" :> "w") @@ ("X" :> "x") @@ ("Y" :> "y")
  @@ ("Z" :> "z")
toLowerCase(s) == [i \in 1..Len(s) |-> IF s[i] \in UpperCase THEN LowerOf[s[i]] ELSE s[i]]

\* the project file that the path resourcesDirectory + id + '.js' and the URL
\* server + '/' + id + '.js' name
resourceFile(id) == normalize(Slash, Slash \o id \o ExtJs)

\* Module.exists(id)
exists(id) == resourceFile(id) \in DOMAIN Host.files

\* the loop of Module.toAbsolute over the parts of the relative path
RECURSIVE toAbsoluteLoop(_, _, _)
toAbsoluteLoop(newPath, parts, i) ==
  IF i > Len(parts) THEN newPath
  ELSE IF parts[i] = Dot THEN toAbsoluteLoop(newPath, parts, i + 1)
  ELSE IF parts[i] = DotDot
       THEN toAbsoluteLoop(IF newPath = << >> THEN newPath
                           ELSE SubSeq(newPath, 1, Len(newPath) - 1), parts, i + 1)
  ELSE toAbsoluteLoop(Append(newPath, parts[i]), parts, i + 1)

\* newPath.pop() before the loop
toAbsoluteFrom(newPath, parts) ==
  JoinStr(toAbsoluteLoop(SubSeq(newPath, 1, Len(newPath) - 1), parts, 1), Slash)

toAbsolute(parent, relative0) == toAbsoluteFrom(Split(parent, "/"), Split(relative0, "/"))

\* Module.getCached(id) in cache c: the module, 0 for undefined
getCached(c, id) == IF id \in DOMAIN c THEN c[id].i ELSE 0

\* getCached(fullPath) || getCached(fullPath.replace('/index', ''))
\*   || getCached(fullPath + '/index')
getCachedAlias(c, fullPath) ==
  IF getCached(c, fullPath) # 0 THEN getCached(c, fullPath)
  ELSE IF getCached(c, ReplaceFirst(fullPath, IndexSuffix, Empty)) # 0
       THEN getCached(c, ReplaceFirst(fullPath, IndexSuffix, Empty))
  ELSE getCached(c, fullPath \o IndexSuffix)

\* fullPath.slice(0, lastIndex) + '$' + fullPath.slice(lastIndex + 1)
hyperloopClass(fullPath, lastIndex) ==
  IF lastIndex = -1
  THEN hlDir \o SubSeq(fullPath, 1, Len(fullPath) - 1) \o Dollar \o fullPath
  ELSE hlDir \o Slice(fullPath, 0, lastIndex) \o Dollar \o SliceFrom(fullPath, lastIndex + 1)

\* the hyperloop branch of Module.require
hyperloopPath(fullPath, modLowerCase) ==
  IF exists(hlDir \o fullPath) THEN hlDir \o fullPath
  ELSE IF exists(hlDir \o modLowerCase) THEN hlDir \o modLowerCase
  ELSE IF IndexOf(fullPath, ".") = -1 /\ exists(hlDir \o fullPath \o Slash \o fullPath)
       THEN hlDir \o fullPath \o Slash \o fullPath
  ELSE IF IndexOf(fullPath, ".") = -1
          /\ exists(hlDir \o modLowerCase \o Slash \o modLowerCase)
       THEN hlDir \o modLowerCase \o Slash \o modLowerCase
  ELSE IF exists(fullPath)
       THEN hyperloopClass(fullPath, LastIndexOf(fullPath, ".", Len(fullPath)))
  ELSE fullPath

hyperloopOf(fullPath) == hyperloopPath(fullPath, toLowerCase(fullPath))

\* "if (!Module.exists(fullPath)) { ... }" of Module.require: the id of the new module
locate(id, fullPath) ==
  IF exists(fullPath) THEN fullPath
  ELSE IF IndexOfString(fullPath, Slash) = 0 /\ exists(fullPath \o IndexSuffix)
       THEN fullPath \o IndexSuffix
  ELSE hyperloopOf(IF IndexOfString(fullPath, DotStar) # -1
                   THEN Slice(id, 0, Len(id) - 2) ELSE fullPath)

\* new Module(id), with its exports object at heap index exports
LiveViewModule(id, exports) ==
  [id |-> id, exports |-> exports, parent |-> 0, filename |-> id \o ExtJs, path |-> Empty,
   paths |-> << >>, loaded |-> FALSE, wrapperCache |-> << >>, isService |-> FALSE]

\* _getSource(): the text the file server has for the module (nothing when it has none)
hasSource(id) == resourceFile(id) \in DOMAIN Host.files
getSource(id) == Host.files[resourceFile(id)]

\* Module._requireNative(id): the native module, 0 when require finds none
requireNative(id) == externalBinding(id)

NoLiveViewRequest ==
  [request |-> Empty, fullPath |-> Empty, id |-> Empty, t |-> "none", v |-> 0,
   err |-> NoError, before |-> << >>, trace |-> << >>]

\* the record of a call of Module.require: the id asked for, the path it stands for, the
\* id of the module it ended at, how it ended, the compile stack it found, and what it
\* did to the cache and asked of the file server, in order
Asks(request, fullPath, id, t, v, err, trace) ==
  lvReq' = [request |-> request, fullPath |-> fullPath, id |-> id, t |-> t, v |-> v,
            err |-> err, before |-> compileList, trace |-> trace]

\* "freshModule.cache(); freshModule._compile()": the module is in Module._cache when
\* _compile asks _getSource for its text
cacheThenCompile(id) == <<[e |-> "cache", f |-> id], [e |-> "read", f |-> id]>>

\* Module.require returns v to the innermost of callers (to the host when there is none)
deliver(callers, out, v) ==
  /\ stack' = Resume(callers, v)
  /\ exc' = NoError
  /\ outcome' = IF callers = << >> THEN Returned(v) ELSE out

\* Module.require throws err
raise(callers, out, err) ==
  /\ stack' = callers
  /\ exc' = IF callers = << >> THEN NoError ELSE err
  /\ outcome' = IF callers = << >> THEN Failed(err) ELSE out

\* "freshModule.cache(); freshModule._compile(); return freshModule.exports" for the
\* new module m of id, whose exports object is the new heap object
compile(c, request, fullPath, id, callers, out, m) ==
  /\ cache' = (id :> ModuleEntry(m)) @@ c
  /\ heap' = Append(heap, EmptyObject)
  /\ IF ~hasSource(id) /\ requireNative(id) # 0
     THEN /\ modules' = Append(modules, [LiveViewModule(id, requireNative(id))
                                           EXCEPT !.loaded = TRUE])
          /\ deliver(callers, out, requireNative(id))
          /\ Asks(request, fullPath, id, "native", requireNative(id), NoError,
                  cacheThenCompile(id))
          /\ UNCHANGED <<compileList, emitted, evals>>
     ELSE IF ~hasSource(id)
     THEN /\ modules' = Append(modules, LiveViewModule(id, Len(heap) + 1))
          /\ raise(callers, out, Error("ModuleNotFound", id))
          /\ Asks(request, fullPath, id, "throw", 0, Error("ModuleNotFound", id),
                  cacheThenCompile(id))
          /\ UNCHANGED <<compileList, emitted, evals>>
     ELSE IF getSource(id).kind # "js"
     THEN /\ modules' = Append(modules, [LiveViewModule(id, Len(heap) + 1)
                                           EXCEPT !.loaded = TRUE])
          /\ emitted' = Append(emitted, [module |-> id, err |-> Error("SyntaxError", id)])
          /\ deliver(callers, out, Len(heap) + 1)
          /\ Asks(request, fullPath, id, "caught", Len(heap) + 1, NoError,
                  cacheThenCompile(id))
          /\ UNCHANGED <<compileList, evals>>
     ELSE /\ modules' = Append(modules, LiveViewModule(id, Len(heap) + 1))
          /\ compileList' = Append(compileList, id)
          /\ stack' = Append(callers,
               [m |-> m, body |-> getSource(id).body, pc |-> 1, last |-> 0,
                wrapped |-> TRUE, exports |-> Len(heap) + 1, kont |-> Kont("lv", 0, id, 0),
                self |-> IF callers = << >> THEN 0 ELSE callers[Len(callers)].m,
                request |-> request])
          /\ evals' = Append(evals, [file |-> id \o ExtJs, m |-> m, host |-> FALSE])
          /\ exc' = NoError
          /\ outcome' = out
          /\ Asks(request, fullPath, id, "enter", 0, NoError,
                  cacheThenCompile(id))
          /\ UNCHANGED emitted

\* "if (cached) return cached.exports" of Module.require, m being the cached module
returnCached(c, request, fullPath, m, callers, out) ==
  /\ cache' = c
  /\ deliver(callers, out, modules[m].exports)
  /\ Asks(request, fullPath, modules[m].id, "cached", modules[m].exports, NoError, << >>)
  /\ UNCHANGED <<modules, heap, compileList, emitted, evals>>

\* Module.require throws before it has touched the cache
throwEarly(c, request, callers, out, err) ==
  /\ cache' = c
  /\ raise(callers, out, err)
  /\ Asks(request, request, Empty, "throw", 0, err, << >>)
  /\ UNCHANGED <<modules, heap, compileList, emitted, evals>>

\* Module.require once the relative id has been made absolute
requireFullPath(c, request, fullPath, callers, out) ==
  IF getCachedAlias(c, fullPath) # 0
  THEN returnCached(c, request, fullPath, getCachedAlias(c, fullPath), callers, out)
  ELSE compile(c, request, fullPath, locate(request, fullPath), callers, out,
               Len(modules) + 1)

\* Module.require(id) with cache c, called from the innermost of callers; a relative id
\* is resolved against the top of the compile stack, which is undefined when it is empty
moduleRequire(c, request, callers, out) ==
  IF Len(callers) >= MaxDepth
  THEN throwEarly(c, request, callers, out, Error("RangeError", Empty))
  ELSE IF IndexOfString(request, DotSlash) # 0 /\ IndexOfString(request, DotDot \o Slash) # 0
  THEN requireFullPath(c, request, request, callers, out)
  ELSE IF compileList = << >>
  THEN throwEarly(c, request, callers, out, Error("TypeError", request))
  ELSE requireFullPath(c, request, toAbsolute(compileList[Len(compileList)], request),
                       callers, out)

LiveViewIdle == Idle /\ Host.loader = "liveview"

\* Module.require(id), called by the host (Module.patch, connectServer, the application)
LvRequire(request) ==
  /\ LiveViewIdle
  /\ request \in Host.requests
  /\ moduleRequire(cache, request, << >>, Pending)
  /\ calls' = calls + 1
  /\ op' = "LvRequire"
  /\ UNCHANGED <<restVars, world, fileIndex, indexReads, mainModule, globalRequire, lastReq,
                 returned, served>>

\* the reload event of the event server: "Module._cache = {}; Module.global.reload()",
\* reload taking its legacy branch Module.require('app')
Reload ==
  /\ LiveViewIdle
  /\ moduleRequire(<< >>, AppId, << >>, Pending)
  /\ calls' = calls + 1
  /\ op' = "Reload"
  /\ UNCHANGED <<restVars, world, fileIndex, indexReads, mainModule, globalRequire, lastReq,
                 returned, served>>

\* a body run by _compile calls require
LvExecRequire ==
  /\ Running /\ Top.kont.k = "lv" /\ Top.pc <= Len(Top.body)
  /\ Statement.op = "req"
  /\ moduleRequire(cache, Statement.spec, stack, outcome)
  /\ op' = "LvExecRequire"
  /\ UNCHANGED <<restVars, world, fileIndex, indexReads, mainModule, globalRequire, lastReq,
                 returned, served, calls>>

leaveCompileUnloaded ==
  /\ compileList' = SubSeq(compileList, 1, Len(compileList) - 1)
  /\ modules' = modules
  /\ stack' = Resume(SubSeq(stack, 1, Len(stack) - 1), modules[Top.m].exports)
  /\ outcome' = IF Len(stack) = 1 THEN Returned(modules[Top.m].exports) ELSE outcome
  /\ UNCHANGED <<restVars, world, fileIndex, indexReads, cache, heap, mainModule, globalRequire,
                 calls, evals, lastReq, returned, served, lvReq>>

\* the end of _compile: "Module._compileList.pop(); this.loaded = true", and
\* Module.require returns freshModule.exports
leaveCompile ==
  /\ compileList' = SubSeq(compileList, 1, Len(compileList) - 1)
  /\ modules' = [modules EXCEPT ![Top.m].loaded = TRUE]
  /\ stack' = Resume(SubSeq(stack, 1, Len(stack) - 1), modules[Top.m].exports)
  /\ outcome' = IF Len(stack) = 1 THEN Returned(modules[Top.m].exports) ELSE outcome
  /\ UNCHANGED <<restVars, world, fileIndex, indexReads, cache, heap, mainModule, globalRequire,
                 calls, evals, lastReq, returned, served, lvReq>>

\* the body run by _compile has come to its end
CompileReturn ==
  /\ Running /\ Top.kont.k = "lv" /\ Top.pc > Len(Top.body)
  /\ leaveCompile
  /\ UNCHANGED <<exc, emitted>>
  /\ op' = "CompileReturn"

CompileCatchKeepingList ==
  /\ stack # << >> /\ exc # NoError /\ Top.kont.k = "lv"
  /\ emitted' = Append(emitted, [module |-> modules[Top.m].filename, err |-> exc])
  /\ exc' = NoError
  /\ compileList' = compileList
  /\ modules' = [modules EXCEPT ![Top.m].loaded = TRUE]
  /\ stack' = Resume(SubSeq(stack, 1, Len(stack) - 1), modules[Top.m].exports)
  /\ outcome' = IF Len(stack) = 1 THEN Returned(modules[Top.m].exports) ELSE outcome
  /\ UNCHANGED <<restVars, world, fileIndex, indexReads, cache, heap, mainModule, globalRequire,
                 calls, evals, lastReq, returned, served, lvReq>>
  /\ op' = "CompileCatch"

\* an error thrown in the body is caught by the wrapper of Module._wrap
\* (CATCH_ERRORS), which emits uncaughtException; _compile then ends as usual
CompileCatch ==
  /\ stack # << >> /\ exc # NoError /\ Top.kont.k = "lv"
  /\ emitted' = Append(emitted, [module |-> modules[Top.m].filename, err |-> exc])
  /\ exc' = NoError
  /\ leaveCompile
  /\ op' = "CompileCatch"

\* the loaders before anything is run or required
LoaderInit ==
  /\ fileIndex = [loaded |-> FALSE, keys |-> {}]
  /\ indexReads = 0
  /\ cache = << >>
  /\ modules = << >>
  /\ heap = [i \in 1..Len(Host.natives) |-> EmptyObject]
  /\ mainModule = 0
  /\ globalRequire = 0
  /\ stack = << >>
  /\ exc = NoError
  /\ outcome = NoOutcome
  /\ calls = 0
  /\ evals = << >>
  /\ lastReq = NoRequest
  /\ returned = NoReturn
  /\ compileList = << >>
  /\ emitted = << >>
  /\ lvReq = NoLiveViewRequest
  /\ served = {}
  /\ op = "Init"

\* no call of the path library is under way
PathIdle ==
  /\ pathFn = "none"
  /\ pathSep = Slash
  /\ pathArgs = << >>
  /\ pathOut = NoResult

\* no listener has run
NotPressed == [label |-> "none"]

\* no window of the application is open
AppIdle ==
  /\ appEntry = "none"
  /\ loginOpen = FALSE
  /\ emailValue = Empty
  /\ passwordValue = Empty
  /\ alertShown = FALSE
  /\ calcOpen = FALSE
  /\ currentInput = Empty
  /\ displayText = Empty
  /\ pressed = NotPressed

Init ==
  /\ world \in {Worlds[i] : i \in DOMAIN Worlds}
  /\ LoaderInit
  /\ PathIdle
  /\ AppIdle

Next ==
  \/ \E e \in Host.entries : RunModule(e[1], e[2])
  \/ \E request \in Host.requests : GlobalRequire(request)
  \/ ExecAssign
  \/ ExecRequire
  \/ ExecThrow
  \/ Return
  \/ Propagate
  \/ \E request \in Host.requests : LvRequire(request)
  \/ Reload
  \/ LvExecRequire
  \/ CompileReturn
  \/ CompileCatch

vars == <<kernelVars, lvVars, restVars>>

Spec == Init /\ [][Next]_vars

\* JavaScript runs a call to completion: a body that has been entered keeps executing
\* until it returns or throws, and an error keeps unwinding the call chain
\* One step of the script on top of the stack
BodyStep ==
  \/ ExecAssign \/ ExecRequire \/ ExecThrow \/ Return \/ Propagate
  \/ LvExecRequire \/ CompileReturn \/ CompileCatch

\* A script that has started runs on (run to completion on the single JavaScript
\* thread): WF_vars(BodyStep) written out as []<>~ENABLED \/ []<><<BodyStep>>_vars,
\* a step of the running script being enabled exactly while the stack is not empty.
FairSpec == Spec /\ ([]<>(stack = << >>) \/ []<><<BodyStep>>_vars)

(***************************************************************************)
(* Calls of the path library: the host picks a namespace and arguments,    *)
(* and one function is applied to them.                                    *)
(***************************************************************************)
\* the longest list of segments a path argument is joined from
MaxSegs == 3

Separators == {Slash, Backslash}

\* the segments the path arguments are made of
Segments == {Empty, Dot, DotDot, <<"a">>, <<".", "b">>, <<"a", ".", "b", ".", "c">>, <<"C", ":">>}
PairSegments == {Empty, DotDot, <<"a">>, <<"a", "b">>}
ModuleSegments == {Empty, DotDot, <<"a">>, NodeModules}

\* the lists of at most n segments out of S, joined with separator j
PathsOf(S, n, j) == {JoinStr(l, j) : l \in UNION {[1..k -> S] : k \in 0..n}}

\* the paths of the worked examples of normalize, extname, basename and isAbsolute
ExamplePaths ==
  {<<"/", "a", "/", "b", "/", ".", ".", "/", "c">>, <<"a", "/", ".", "/", "b">>,
   <<"/", "a", "/", "b", ".", "c", ".", "j", "s">>,
   <<"/", "a", "/", ".", "b", "a", "s", "h", "r", "c">>,
   <<"/", "a", "/", "b", "/", "c", ".", "j", "s">>, <<"C", ":", "x">>}
ExampleExts == {<<".", "j", "s">>, <<"j", "s">>, <<"c", ".", "j", "s">>, Empty}
ExamplePairs ==
  {<<Str(p), Str(e)>> : p \in ExamplePaths, e \in ExampleExts}
  \cup {<<Str(<<"C", ":", "\\", "a">>), Str(<<"D", ":", "\\", "b">>)>>,
        <<Str(<<"/", "a", "/", "b">>), Str(<<"/", "a", "/", "c">>)>>,
        <<NumberValue, Str(Slash), Str(<<"a">>)>>,
        <<Str(Slash), NumberValue, Str(<<"a">>)>>}

NonStrings == {UndefinedValue, NullValue, NumberValue}
PathStrings ==
  PathsOf(Segments, MaxSegs, Slash) \cup PathsOf(Segments, MaxSegs, Backslash)
  \cup PathsOf(ModuleSegments, MaxSegs + 1, Slash)
  \cup ExamplePaths
PairValues == {Str(p) : p \in PathsOf(PairSegments, MaxSegs - 1, Slash)} \cup NonStrings

\* the argument lists of the calls
PathArguments ==
  {<<v>> : v \in {Str(p) : p \in PathStrings} \cup NonStrings}
  \cup (PairValues \X PairValues)
  \cup ExamplePairs

PathInit ==
  /\ world = Circular
  /\ LoaderInit
  /\ pathFn = "none"
  /\ pathSep \in Separators
  /\ pathArgs \in PathArguments
  /\ pathOut = NoResult
  /\ AppIdle

\* the call name(...pathArgs) in the namespace of pathSep
Apply(name) ==
  /\ pathFn = "none"
  /\ pathFn' = name
  /\ pathOut' = Call(pathSep, name, pathArgs)
  /\ UNCHANGED <<pathSep, pathArgs, kernelVars, lvVars, appVars>>

IsAbsolute == Len(pathArgs) = 1 /\ Apply("isAbsolute")
Dirname == Len(pathArgs) = 1 /\ Apply("dirname")
Extname == Len(pathArgs) = 1 /\ Apply("extname")
Basename == Len(pathArgs) <= 2 /\ Apply("basename")
Normalize == Len(pathArgs) = 1 /\ Apply("normalize")
Join == Len(pathArgs) >= 1 /\ Apply("join")
Resolve == Len(pathArgs) >= 1 /\ Apply("resolve")
Relative == Len(pathArgs) = 2 /\ Apply("relative")
Parse == Len(pathArgs) = 1 /\ Apply("parse")
ToNamespacedPath == Len(pathArgs) = 1 /\ Apply("toNamespacedPath")

\* format(pathArgs[1]), or format of the object the parse call before it returned
Format ==
  \/ Len(pathArgs) = 1 /\ Apply("format")
  \/ /\ pathFn = "parse" /\ pathOut.t = "return"
     /\ pathFn' = "format"
     /\ pathArgs' = <<pathOut.v>>
     /\ pathOut' = Call(pathSep, "format", <<pathOut.v>>)
     /\ UNCHANGED <<pathSep, kernelVars, lvVars, appVars>>

\* nodeModulesPaths(pathArgs[1]) of the kernel loader, which splits at '/' and so works
\* with the POSIX paths of its platforms
NodeModulesPaths ==
  /\ pathFn = "none"
  /\ pathSep = Slash /\ Len(pathArgs) = 1 /\ pathArgs[1].type = "string"
  /\ pathFn' = "nodeModulesPaths"
  /\ pathOut' = Returns([type |-> "array", items |-> nodeModulesPaths(pathArgs[1].s)])
  /\ UNCHANGED <<pathSep, pathArgs, kernelVars, lvVars, appVars>>

PathNext ==
  \/ NodeModulesPaths
  \/ IsAbsolute
  \/ Dirname
  \/ Extname
  \/ Basename
  \/ Normalize
  \/ Join
  \/ Resolve
  \/ Relative
  \/ Parse
  \/ Format
  \/ ToNamespacedPath

PathSpec == PathInit /\ [][PathNext]_vars

(***************************************************************************)
(* The application: the login screen and the calculator.                   *)
(***************************************************************************)
\* the longest value typed into a text field
MaxField == 2

\* the longest input a label is appended to
MaxInput == 3

WhiteSpace == {" ", "\t", "\n", "\r"}

\* the values typed into the text fields
FieldChars == {" ", "a"}
FieldValues == UNION {[1..k -> FieldChars] : k \in 0..MaxField}

\* the buttons of the calculator that are pressed
Labels == {"C", "±", "=", "1", "2", "+", "-"}

RECURSIVE trimStart(_)
trimStart(s) == IF s # Empty /\ s[1] \in WhiteSpace THEN trimStart(Tail(s)) ELSE s

RECURSIVE trimEnd(_)
trimEnd(s) ==
  IF s # Empty /\ s[Len(s)] \in WhiteSpace THEN trimEnd(SubSeq(s, 1, Len(s) - 1)) ELSE s

untrimmed(s) == s

\* s.trim()
trim(s) == trimEnd(trimStart(s))

\* the truth value of a string in a condition
ToBoolean(s) == s # Empty

(***************************************************************************)
(* eval of the calculator's input.  The buttons pressed make sums of       *)
(* decimal literals; a result that is put back into the input adds the     *)
(* names NaN and Error and the text of a native function.  strict tells    *)
(* whether the listener is compiled as strict code, which decides what a   *)
(* literal with a leading zero is.                                         *)
(***************************************************************************)
Digits == <<"0", "1", "2", "3", "4", "5", "6", "7", "8", "9">>
DigitChars == {Digits[i] : i \in 1..10}
DigitValue(c) == (CHOOSE i \in 1..10 : Digits[i] = c) - 1
SignChars == {"+", "-"}
IdentifierStart == UpperCase \cup LowerCase

NaNText == <<"N", "a", "N">>
ErrorText == <<"E", "r", "r", "o", "r">>

\* Error.toString(): the text of a native function
NativeFunctionText ==
  <<"f", "u", "n", "c", "t", "i", "o", "n", " ", "E", "r", "r", "o", "r", "(", ")", " ",
    "{", " ", "[", "n", "a", "t", "i", "v", "e", " ", "c", "o", "d", "e", "]", " ", "}">>

Num(n) == [type |-> "number", nan |-> FALSE, n |-> n]
NaN == [type |-> "number", nan |-> TRUE]
ErrorConstructor == [type |-> "function"]
Threw == [type |-> "thrown"]

\* the number of characters of S that s starts with
RECURSIVE runOf(_, _)
runOf(s, S) == IF s # Empty /\ s[1] \in S THEN 1 + runOf(Tail(s), S) ELSE 0

\* the tokens of the source text s: signs, decimal literals and identifiers; any
\* other character comes from the text of a native function, which is no expression
RECURSIVE tokens(_)
tokens(s) ==
  IF s = Empty THEN << >>
  ELSE IF s[1] \in SignChars
    THEN <<[k |-> "op", s |-> <<s[1]>>]>> \o tokens(Tail(s))
  ELSE IF s[1] \in DigitChars
    THEN IF runOf(s, DigitChars) < Len(s) /\ s[runOf(s, DigitChars) + 1] \in IdentifierStart
         THEN <<[k |-> "bad", s |-> s]>>
         ELSE <<[k |-> "num", s |-> SubSeq(s, 1, runOf(s, DigitChars))]>>
              \o tokens(SubSeq(s, runOf(s, DigitChars) + 1, Len(s)))
  ELSE IF s[1] \in IdentifierStart
    THEN <<[k |-> "id", s |-> SubSeq(s, 1, runOf(s, IdentifierStart \cup DigitChars))]>>
         \o tokens(SubSeq(s, runOf(s, IdentifierStart \cup DigitChars) + 1, Len(s)))
  ELSE <<[k |-> "bad", s |-> s]>>

RECURSIVE valueIn(_, _)
valueIn(ds, base) ==
  IF ds = Empty THEN 0
  ELSE valueIn(SubSeq(ds, 1, Len(ds) - 1), base) * base + DigitValue(ds[Len(ds)])

\* a numeric literal: one with a leading zero is octal when its digits allow it, and
\* a syntax error in strict code
literal(ds, strict) ==
  IF Len(ds) > 1 /\ ds[1] = "0"
  THEN IF strict THEN Threw
       ELSE IF \A i \in 1..Len(ds) : DigitValue(ds[i]) < 8 THEN Num(valueIn(ds, 8))
       ELSE Num(valueIn(ds, 10))
  ELSE Num(valueIn(ds, 10))

\* an identifier: a global that exists, or a ReferenceError
identifier(name) ==
  IF name = ErrorText THEN ErrorConstructor
  ELSE IF name = NaNText THEN NaN
  ELSE Threw

RECURSIVE digitsOf(_)
digitsOf(n) ==
  IF n < 10 THEN <<Digits[n + 1]>> ELSE Append(digitsOf(n \div 10), Digits[(n % 10) + 1])

\* v.toString()
toString(v) ==
  IF v.type = "string" THEN v.s
  ELSE IF v.type = "function" THEN NativeFunctionText
  ELSE IF v.nan THEN NaNText
  ELSE IF v.n < 0 THEN <<"-">> \o digitsOf(0 - v.n)
  ELSE digitsOf(v.n)

\* the number a value converts to: a function, and a string that starts with the text
\* of one, is not a number
ToNumber(v) == IF v.type = "number" THEN v ELSE NaN

negate(v) == IF v.nan THEN v ELSE Num(0 - v.n)

\* a + b: concatenation when an operand is no number
add(a, b) ==
  IF a.type # "number" \/ b.type # "number" THEN Str(toString(a) \o toString(b))
  ELSE IF a.nan \/ b.nan THEN NaN
  ELSE Num(a.n + b.n)

\* a - b
subtract(a, b) ==
  IF ToNumber(a).nan \/ ToNumber(b).nan THEN NaN ELSE Num(a.n - b.n)

\* the unary expression at token i: its value and the token after it.  Two equal signs
\* in a row are the token ++ or --, which no literal or global can be the operand of
RECURSIVE unary(_, _, _)
unary(toks, i, strict) ==
  IF i > Len(toks) THEN [v |-> Threw, next |-> i]
  ELSE IF toks[i].k = "op"
    THEN IF i < Len(toks) /\ toks[i + 1] = toks[i] THEN [v |-> Threw, next |-> i]
         ELSE LET r == unary(toks, i + 1, strict)
              IN IF r.v = Threw THEN r
                 ELSE [v |-> IF toks[i].s = <<"-">> THEN negate(ToNumber(r.v))
                             ELSE ToNumber(r.v),
                       next |-> r.next]
  ELSE IF toks[i].k = "num" THEN [v |-> literal(toks[i].s, strict), next |-> i + 1]
  ELSE IF toks[i].k = "id" THEN [v |-> identifier(toks[i].s), next |-> i + 1]
  ELSE [v |-> Threw, next |-> i]

\* the rest of a sum from token i on, acc being the value of what is before it
RECURSIVE sum(_, _, _, _)
sum(toks, i, acc, strict) ==
  IF i > Len(toks) THEN acc
  ELSE IF toks[i].k # "op" THEN Threw
  ELSE IF i < Len(toks) /\ toks[i + 1] = toks[i] THEN Threw
  ELSE LET r == unary(toks, i + 1, strict)
       IN IF r.v = Threw THEN Threw
          ELSE sum(toks, r.next,
                   IF toks[i].s = <<"+">> THEN add(acc, r.v) ELSE subtract(acc, r.v),
                   strict)

\* eval(input): undefined for the empty program
eval(input, strict) ==
  IF tokens(input) = << >> THEN UndefinedValue
  ELSE LET r == unary(tokens(input), 1, strict)
       IN IF r.v = Threw THEN Threw ELSE sum(tokens(input), r.next, r.v, strict)

\* eval(input).toString(): undefined has no toString
evalToString(input, strict) ==
  IF eval(input, strict) = Threw \/ eval(input, strict).type = "undefined" THEN Threw
  ELSE Str(toString(eval(input, strict)))

onClickPrependingMinus(label, input, strict) ==
  IF label = "=" THEN
    IF evalToString(input, strict) = Threw THEN ErrorText
    ELSE evalToString(input, strict).s
  ELSE IF label = "C" THEN Empty
  ELSE IF label = "±" THEN <<"-">> \o input
  ELSE Append(input, label)

onClickKeepingInput(label, input, strict) ==
  IF label = "=" THEN
    IF evalToString(input, strict) = Threw THEN ErrorText
    ELSE evalToString(input, strict).s
  ELSE IF label = "C" THEN input
  ELSE IF label = "±" THEN
    IF StartsWith(input, <<"-">>) THEN SliceFrom(input, 1) ELSE <<"-">> \o input
  ELSE Append(input, label)

\* currentInput after the click listener of the button label has run
onClick(label, input, strict) ==
  IF label = "=" THEN
    IF evalToString(input, strict) = Threw THEN ErrorText
    ELSE evalToString(input, strict).s
  ELSE IF label = "C" THEN Empty
  ELSE IF label = "±" THEN
    IF StartsWith(input, <<"-">>) THEN SliceFrom(input, 1) ELSE <<"-">> \o input
  ELSE Append(input, label)

\* the application starts with the login screen, or with the calculator alone
AppInit ==
  /\ world = Circular
  /\ LoaderInit
  /\ PathIdle
  /\ appEntry \in {"login", "calculator"}
  /\ loginOpen = (appEntry = "login")
  /\ calcOpen = (appEntry = "calculator")
  /\ emailValue = Empty
  /\ passwordValue = Empty
  /\ alertShown = FALSE
  /\ currentInput = Empty
  /\ displayText = Empty
  /\ pressed = NotPressed

\* the user edits the email field
TypeEmail(v) ==
  /\ loginOpen /\ ~alertShown
  /\ emailValue' = v
  /\ pressed' = NotPressed
  /\ UNCHANGED <<appEntry, loginOpen, passwordValue, alertShown, calcOpen, currentInput,
                 displayText, kernelVars, lvVars, pathVars>>

\* the user edits the password field
TypePassword(v) ==
  /\ loginOpen /\ ~alertShown
  /\ passwordValue' = v
  /\ pressed' = NotPressed
  /\ UNCHANGED <<appEntry, loginOpen, emailValue, alertShown, calcOpen, currentInput,
                 displayText, kernelVars, lvVars, pathVars>>

\* the click listener of loginButton
ClickLogin ==
  /\ loginOpen /\ ~alertShown
  /\ pressed' = [label |-> "Login", email |-> emailValue, password |-> passwordValue]
  /\ IF ToBoolean(trim(emailValue)) /\ ToBoolean(passwordValue)
     THEN /\ loginOpen' = FALSE
          /\ calcOpen' = TRUE
          /\ currentInput' = Empty
          /\ displayText' = Empty
          /\ emailValue' = Empty
          /\ passwordValue' = Empty
          /\ UNCHANGED alertShown
     ELSE /\ alertShown' = TRUE
          /\ UNCHANGED <<loginOpen, calcOpen, currentInput, displayText, emailValue,
                         passwordValue>>
  /\ UNCHANGED <<appEntry, kernelVars, lvVars, pathVars>>

\* the user closes the alert dialog
DismissAlert ==
  /\ alertShown
  /\ alertShown' = FALSE
  /\ pressed' = NotPressed
  /\ UNCHANGED <<appEntry, loginOpen, emailValue, passwordValue, calcOpen, currentInput,
                 displayText, kernelVars, lvVars, pathVars>>

\* the click listener of the calculator button label; pressed keeps the input the
\* listener found and, when the event before this one was a click of the same button,
\* the input that click had found
Press(label, strict) ==
  /\ calcOpen
  /\ label \notin {"=", "C", "±"} => Len(currentInput) < MaxInput
  /\ pressed' = [label |-> label, before |-> currentInput,
                 previous |-> IF pressed.label = label THEN <<pressed.before>> ELSE << >>]
  /\ currentInput' = onClick(label, currentInput, strict)
  /\ displayText' = currentInput'
  /\ UNCHANGED <<appEntry, loginOpen, emailValue, passwordValue, alertShown, calcOpen,
                 kernelVars, lvVars, pathVars>>

\* the click listener of logoutButton: the calculator closes and a new login screen opens
Logout ==
  /\ calcOpen /\ appEntry = "login"
  /\ calcOpen' = FALSE
  /\ loginOpen' = TRUE
  /\ emailValue' = Empty
  /\ passwordValue' = Empty
  /\ currentInput' = Empty
  /\ displayText' = Empty
  /\ pressed' = [label |-> "Logout"]
  /\ UNCHANGED <<appEntry, alertShown, kernelVars, lvVars, pathVars>>

AppNext ==
  \/ \E v \in FieldValues : TypeEmail(v)
  \/ \E v \in FieldValues : TypePassword(v)
  \/ ClickLogin
  \/ DismissAlert
  \/ \E label \in Labels : \E strict \in BOOLEAN : Press(label, strict)
  \/ Logout

AppSpec == AppInit /\ [][AppNext]_vars

(***************************************************************************)
(* Properties of the kernel loader.                                        *)
(***************************************************************************)
\* an asset of the asset store
Exists(p) == (ResourcesDir \o p) \in Host.index

\* the assets that make load-as-file or load-as-directory find something at p
Candidates(p) ==
  {p, p \o ExtJs, p \o ExtJson, resolve(Slash, <<p, PackageJson>>),
   resolve(Slash, <<p, IndexJs>>), resolve(Slash, <<p, IndexJson>>)}
NoCandidateAt(p) == \A c \in Candidates(p) : ~Exists(c)

IsRelativeSpecifier(request) ==
  StartsWith(request, DotSlash) \/ StartsWith(request, DotDot \o Slash)
IsAbsoluteSpecifier(request) == StartsWith(request, Slash)
IsBareSpecifier(request) ==
  ~IsRelativeSpecifier(request) /\ ~IsAbsoluteSpecifier(request)

Asked == lastReq.t # "none"
RaisedNotFound == lastReq.t = "throw" /\ lastReq.err.kind = "ModuleNotFound"

\* C1: a module whose body the kernel loader is executing is the record the cache
\* holds under its filename, so that a require resolving to that filename gets the
\* record in progress and no second load of it starts
C1_ExecutingModuleIsCached ==
  \A i \in 1..Len(stack) :
    LET f == modules[stack[i].m].filename
    IN stack[i].kont.k # "lv" => f \in DOMAIN cache /\ cache[f] = ModuleEntry(stack[i].m)

\* C2: require calls of the kernel loader that resolve to the same module id return
\* the same exports reference, and no require evaluates a module's source a second time
C2_SameIdSameExports ==
  Host.loader = "kernel" =>
    /\ \A a \in served : \A b \in served : a[1] = b[1] => a[2] = b[2]
    /\ \A i \in 1..Len(evals) : \A j \in 1..Len(evals) :
         (i < j /\ ~evals[j].host) => evals[i].file # evals[j].file

\* the positions in evals at which the body of file f was started
EvalsOf(f) == {i \in 1..Len(evals) : evals[i].file = f}

\* the module record the cache holds for file f
ModuleAt(f) == modules[cache[f].i]
IsLoaded(f) == f \in DOMAIN cache /\ ~cache[f].native /\ ModuleAt(f).loaded

\* the host with /a.js (exports.val = 1; require('./b')) and
\* /b.js (require('./a'); exports.sawVal = a.val)
InCircular == world = Circular
AFirst ==
  /\ EvalsOf(S__aojs) # {}
  /\ \A j \in EvalsOf(S__bojs) : \E i \in EvalsOf(S__aojs) : i < j

NoStackOverflow ==
  /\ exc.kind # "RangeError"
  /\ outcome.err.kind # "RangeError"
  /\ lastReq.err.kind # "RangeError"

C3_Safe ==
  /\ NoStackOverflow
  /\ Cardinality(EvalsOf(S__aojs)) <= 1
  /\ Cardinality(EvalsOf(S__bojs)) <= 1
  /\ (AFirst /\ IsLoaded(S__aojs)) =>
       /\ Cardinality(EvalsOf(S__bojs)) = 1
       /\ IsLoaded(S__bojs)
       /\ heap[ModuleAt(S__bojs).exports].vals["sawVal"] = 1

\* C3: with /a.js and /b.js requiring each other, every call ends (the stack of
\* executing bodies empties) without the recursion running into the engine's limit,
\* each body is started at most once, and once A, loaded first, has finished its body,
\* B's body has run exactly once, B is loaded and B's exports.sawVal is 1
C3_CircularRequire ==
  /\ [](InCircular => C3_Safe)
  /\ (InCircular /\ stack # << >>) ~> (stack = << >>)

C3_Witness ==
  /\ InCircular /\ AFirst /\ IsLoaded(S__aojs) /\ stack = << >>
  /\ Cardinality(EvalsOf(S__aojs)) = 1
  /\ heap[ModuleAt(S__bojs).exports].vals["sawVal"] = 1
  /\ heap[ModuleAt(S__aojs).exports].vals["val"] = 1

\* the main field of the object dir/package.json parses to (Empty without one)
PackageMain(dir) ==
  LET f == resolve(Slash, <<dir, PackageJson>>)
  IN IF Exists(f) /\ Host.files[f].kind = "json" THEN Host.files[f].main ELSE Empty

\* the asset load-as-file finds at p (Empty when there is none)
FileAt(p) ==
  IF Exists(p) THEN p
  ELSE IF Exists(p \o ExtJs) THEN p \o ExtJs
  ELSE IF Exists(p \o ExtJson) THEN p \o ExtJson
  ELSE Empty

\* the loadable file that the main field of dir/package.json names
MainFile(dir) ==
  IF PackageMain(dir) = Empty THEN Empty
  ELSE FileAt(resolve(Slash, <<dir, PackageMain(dir)>>))

\* the directories whose package.json names a loadable file
MainDirs ==
  {dir \in {dirname(Slash, f) : f \in DOMAIN Host.files} : MainFile(dir) # Empty}

\* the exports of the module the cache holds for file f (0 when it holds none)
CachedExports(f) ==
  IF f \in DOMAIN cache /\ ~cache[f].native THEN ModuleAt(f).exports ELSE 0

\* the absolute specifier of dir and the bare specifier naming it
NamesOf(dir) == {dir, SliceFrom(dir, 2)}

\* the require call q, if made for dir, resolved to the module of file f
ResolvedTo(q, f) == q.file = f /\ q.v = CachedExports(f)

DirectoryIsReached(self, request, dir) ==
  IF request = dir THEN FileAt(dir) = Empty
  ELSE /\ externalBinding(Split(request, "/")[1]) = 0
       /\ IF IndexOf(request, "/") = -1
          THEN ~Exists(Slash \o request \o Slash \o request \o ExtJs)
          ELSE /\ FileAt(dir) = Empty
               /\ \A i \in DOMAIN modules[self].paths :
                    NoCandidateAt(join(Slash, <<modules[self].paths[i], request>>))

StrategyOrder(self, request) ==
  <<[s |-> "core", p |-> request]>>
  \o (IF IndexOf(request, "/") = -1
      THEN <<[s |-> "sibling", p |-> Slash \o request \o Slash \o request \o ExtJs],
             [s |-> "directory", p |-> Slash \o request]>>
      ELSE << >>)
  \o [i \in DOMAIN modules[self].paths |->
        [s |-> "node_modules", p |-> join(Slash, <<modules[self].paths[i], request>>)]]
  \o <<[s |-> "legacy", p |-> normalize(Slash, Slash \o request)]>>

\* the search-path list runs from the nearest directory to /node_modules
NearestFirst(paths) ==
  /\ paths # << >> /\ paths[Len(paths)] = RootNodeModules
  /\ \A i, j \in DOMAIN paths : i < j => Len(paths[i]) > Len(paths[j])

\* a native module, or a companion script of one, answers to request
CoreProvides(request) ==
  LET parts == Split(request, "/")
  IN /\ request # Empty /\ ~StartsWith(request, Dot)
     /\ externalBinding(parts[1]) # 0
     /\ \/ Len(parts) = 1
        \/ isExternalCommonJsModule(parts[1]) /\ hasExternalCommonJsModule(request)

\* attempt a of a bare require has something to load
Matches(a, request) ==
  IF a.s = "core" THEN CoreProvides(request)
  ELSE IF a.s = "sibling" THEN Exists(a.p)
  ELSE IF a.s = "directory"
       THEN \E f \in {PackageJson, IndexJs, IndexJson} : Exists(resolve(Slash, <<a.p, f>>))
  ELSE ~NoCandidateAt(a.p)

\* C6: the attempts of a bare require are a beginning of the list core, sibling file
\* and directory (specifier without '/'), node_modules directories nearest first with
\* /node_modules last, legacy path; no attempt before the last one matched; the call
\* fails with ModuleNotFound only after the whole list, and otherwise the last attempt
\* is the one that matched
C6_BareStrategyOrder ==
  (Asked /\ IsBareSpecifier(lastReq.request)) =>
    LET order == StrategyOrder(lastReq.self, lastReq.request)
        log == lastReq.log
    IN /\ NearestFirst(modules[lastReq.self].paths)
       /\ Len(log) \in 1..Len(order)
       /\ log = SubSeq(order, 1, Len(log))
       /\ \A i \in 1..(Len(log) - 1) : ~Matches(log[i], lastReq.request)
       /\ IF RaisedNotFound
          THEN Len(log) = Len(order) /\ ~Matches(log[Len(log)], lastReq.request)
          ELSE Matches(log[Len(log)], lastReq.request)

\* C4: a bare require that no native binding and no asset of any strategy provides
\* raises ModuleNotFound, and the error names the request as it was passed
NothingProvides(self, request) ==
  /\ externalBinding(Split(request, "/")[1]) = 0
  /\ IndexOf(request, "/") = -1 =>
       /\ ~Exists(Slash \o request \o Slash \o request \o ExtJs)
       /\ NoCandidateAt(Slash \o request)
  /\ \A i \in 1..Len(modules[self].paths) :
       NoCandidateAt(join(Slash, <<modules[self].paths[i], request>>))
  /\ NoCandidateAt(normalize(Slash, Slash \o request))

C4_NotFoundNamesRequest ==
  (Asked /\ IsBareSpecifier(lastReq.request)
         /\ NothingProvides(lastReq.self, lastReq.request))
  => /\ lastReq.t = "throw"
     /\ lastReq.err = Error("ModuleNotFound", lastReq.request)

C4_Witness ==
  /\ Asked /\ IsBareSpecifier(lastReq.request)
  /\ NothingProvides(lastReq.self, lastReq.request)
  /\ normalize(Slash, Slash \o lastReq.request) # Slash \o lastReq.request
  /\ lastReq.err = Error("ModuleNotFound", lastReq.request)

\* f is a JSON asset whose text does not parse
MalformedJson(f) ==
  f \in DOMAIN Host.files /\ Host.files[f].kind = "bad" /\ EndsWith(f, Json)

\* the asset the last require resolved to: what load-as-file finds at the path of
\* its last attempt
LastResolved ==
  IF lastReq.log = << >> THEN Empty ELSE FileAt(lastReq.log[Len(lastReq.log)].p)

\* C9: a require that resolves to a JSON asset whose text does not parse ends in the
\* parse error, which reaches its caller, and no require returns a value for such
\* an asset
C9_MalformedJsonPropagates ==
  /\ (Asked /\ MalformedJson(LastResolved)) =>
        /\ lastReq.t = "throw" /\ lastReq.err.kind = "SyntaxError"
        /\ op \in {"GlobalRequire", "ExecRequire"} =>
             (exc = lastReq.err \/ outcome = Failed(lastReq.err))
  /\ ~MalformedJson(returned.file)

\* C7: a request is taken down the relative path exactly when it starts with './' or
\* '../'; it is then tried only at normalize(D + '/' + request), and raises
\* ModuleNotFound when nothing is there
C7_RelativeExactly ==
  Asked =>
    /\ lastReq.log[1].s = "relative" <=> IsRelativeSpecifier(lastReq.request)
    /\ lastReq.log[1].s = "relative" =>
         /\ Len(lastReq.log) = 1
         /\ lastReq.log[1].p =
              normalize(Slash, modules[lastReq.self].path \o Slash \o lastReq.request)
         /\ NoCandidateAt(lastReq.log[1].p) => RaisedNotFound

\* C10: no step of a require call removes an entry of the module cache or puts a
\* different record in its place; only the reload event of LiveView clears the cache
C10_CacheOnlyGrows ==
  [][op' \notin {"RunModule", "Reload"} =>
       \A k \in DOMAIN cache : k \in DOMAIN cache' /\ cache'[k] = cache[k]]_vars

\* the step by which an error in flight leaves the body on top of the stack uncaught:
\* the body is dropped and the error goes on to the caller (to the host from the
\* outermost body), no value being returned
LeavesUncaught ==
  /\ stack' = SubSeq(stack, 1, Len(stack) - 1)
  /\ IF Len(stack) = 1 THEN exc' = NoError /\ outcome' = Failed(exc) ELSE exc' = exc
  /\ returned' = returned

\* an error is in flight in the body of a module that is not the entry module
ErrorInBody == stack # << >> /\ exc # NoError /\ Top.kont.k # "entry"

\* C8 as stated: an error in flight in the body of a non-entry module is not caught by
\* the loader (either loader): it leaves every body of the call chain uncaught
C8_BodyErrorPropagates == [][ErrorInBody => LeavesUncaught]_vars

\* the step by which LiveView catches the error in flight: uncaughtException is emitted
\* for the module, the module counts as loaded and its require returns its exports
CaughtByLiveView ==
  /\ emitted' = Append(emitted, [module |-> modules[Top.m].filename, err |-> exc])
  /\ exc' = NoError
  /\ modules'[Top.m].loaded
  /\ stack' = Resume(SubSeq(stack, 1, Len(stack) - 1), modules[Top.m].exports)

\* C8, amended: the kernel loader does not catch the error, which leaves every body of
\* the call chain; the LiveView loader catches it and its require returns
C8_KernelPropagatesLiveViewCatches ==
  [][ErrorInBody => IF Top.kont.k = "lv" THEN CaughtByLiveView ELSE LeavesUncaught]_vars

\* the error of /t.js has left /t.js, /u.js and /v.js and reached the host
C8_Witness ==
  /\ Host.loader = "kernel"
  /\ op = "Propagate" /\ stack = << >>
  /\ outcome = Failed(Error("ModuleBodyError", S__tojs))
  /\ lastReq.request = S_o_t
  /\ \E i, j, k \in DOMAIN evals :
       /\ i < j /\ j < k
       /\ evals[i].file = S__vojs /\ evals[j].file = S__uojs /\ evals[k].file = S__tojs

(***************************************************************************)
(* Aliases of a directory index in the module cache.                       *)
(***************************************************************************)
\* p with a trailing '/index' taken off
StripIndex(p) ==
  IF EndsWith(p, IndexSuffix) THEN Slice(p, 0, Len(p) - Len(IndexSuffix)) ELSE p

\* the ids under which a module cached for path p counts as found
Aliases(p) == {p, StripIndex(p), p \o IndexSuffix}

\* the two names of the directory index /x/index.js
IndexNames == {S__x, S__x_index}

\* the cache lookup of the LiveView loader finds a module at one of the aliases only
LookupAtAliases == lvReq'.t = "cached" => lvReq'.id \in Aliases(lvReq'.fullPath)

\* the LiveView loader, asked for a name of /x/index.js, ends at the module '/x/index';
\* evaluates it when the cache does not hold it and returns the cached exports, without
\* evaluating anything, when it does
EitherOrderLiveView ==
  (op' = "LvRequire" /\ lvReq'.request \in IndexNames) =>
     /\ lvReq'.id = S__x_index
     /\ IF S__x_index \in DOMAIN cache
        THEN /\ lvReq'.t = "cached"
             /\ lvReq'.v = modules[cache[S__x_index].i].exports
             /\ evals' = evals
        ELSE lvReq'.t = "enter" /\ S__x_index \in DOMAIN cache'

\* the kernel loader, asked for a name of /nomain/index.js, returns the exports of the
\* one module of that file
EitherOrderKernel ==
  (op' = "GlobalRequire" /\ lastReq'.request \in {S__nomain, S__nomain_index}
     /\ lastReq'.t # "enter") =>
     /\ lastReq'.file = S__nomain_indexojs
     /\ S__nomain_indexojs \in DOMAIN cache =>
          /\ lastReq'.v = modules[cache[S__nomain_indexojs].i].exports
          /\ evals' = evals

\* C11: a require served from the cache found the module at the resolved id, at that
\* id without a trailing '/index' or at that id with '/index' appended, and requiring
\* a directory and its index in either order evaluates the body once and returns the
\* same exports
C11_AliasesShareOneEntry ==
  [][LookupAtAliases /\ EitherOrderLiveView /\ EitherOrderKernel]_vars

C11_EitherOrder == [][EitherOrderLiveView /\ EitherOrderKernel]_vars

(***************************************************************************)
(* The path library.                                                       *)
(***************************************************************************)
Called(name) == pathFn = name /\ pathOut # NoResult
IsString(v) == v.type = "string"

\* the call ended in a TypeError and returned nothing
ThrewTypeError == pathOut.t = "throw" /\ pathOut.err = "TypeError"

\* the functions whose path argument is the first argument
OnePath == {"isAbsolute", "dirname", "basename", "extname", "normalize", "parse"}

\* the call was given a path argument (for join and resolve: a segment) that is not
\* a string
NonStringPath ==
  \/ pathFn \in OnePath \cup {"toNamespacedPath"} /\ ~IsString(Arg(pathArgs, 1))
  \/ pathFn = "relative" /\ (~IsString(Arg(pathArgs, 1)) \/ ~IsString(Arg(pathArgs, 2)))
  \/ pathFn \in {"join", "resolve"} /\ \E i \in DOMAIN pathArgs : ~IsString(pathArgs[i])

\* C12 as stated: a call of isAbsolute, dirname, basename, extname, normalize, join,
\* resolve, relative, parse or toNamespacedPath, in either namespace, with a path
\* argument or a segment that is not a string ends in the type error, returning nothing
C12_NonStringThrows ==
  (pathOut # NoResult /\ NonStringPath) => ThrewTypeError

\* a segment of resolve that is not a string and has no absolute segment after it
ExaminedNonString ==
  \E i \in DOMAIN pathArgs :
    /\ ~IsString(pathArgs[i])
    /\ \A j \in (i + 1)..Len(pathArgs) :
         IsString(pathArgs[j]) => ~isAbsolute(pathSep = Slash, pathArgs[j].s)

\* C12, amended: as stated for isAbsolute, dirname, basename, extname, normalize,
\* relative, parse and join; resolve ends in the type error exactly when a segment
\* that is not a string has no absolute segment after it; toNamespacedPath returns
\* an argument that is not a string as it is
C12_NonStringThrowsWhereExamined ==
  /\ (pathOut # NoResult /\ NonStringPath /\ pathFn \notin {"resolve", "toNamespacedPath"})
       => ThrewTypeError
  /\ Called("resolve") => (ThrewTypeError <=> ExaminedNonString)
  /\ (Called("toNamespacedPath") /\ NonStringPath) => pathOut = Returns(pathArgs[1])

C12_Witness ==
  /\ Called("resolve") /\ pathSep = Backslash
  /\ pathArgs = <<Str(Slash), NumberValue, Str(<<"a">>)>>
  /\ ThrewTypeError

\* the value a call that returned gave back
ValueOf(result) == result.v

\* the path argument of the call is a POSIX path that is not empty and does not end
\* with the separator
OpenPosixPath ==
  /\ pathSep = Slash /\ Len(pathArgs) = 1 /\ IsString(pathArgs[1])
  /\ pathArgs[1].s # Empty /\ ~EndsWith(pathArgs[1].s, Slash)

\* C13: for a POSIX path p that is not empty and does not end with a separator,
\* posix.join(posix.dirname(p), posix.basename(p)) is posix.normalize(p)
C13_JoinDirnameBasename ==
  (Called("normalize") /\ OpenPosixPath) =>
     Call(Slash, "join", <<ValueOf(Call(Slash, "dirname", pathArgs)),
                           ValueOf(Call(Slash, "basename", pathArgs))>>) = pathOut

C13_Witness ==
  /\ Called("normalize") /\ OpenPosixPath
  /\ pathArgs[1].s = <<"/", "/", ".", "b">>
  /\ pathOut = Returns(Str(<<"/", ".", "b">>))

\* v is an absolute POSIX path in normal form
AbsoluteNormalized(v) ==
  IsString(v) /\ isAbsolute(TRUE, v.s) /\ normalize(Slash, v.s) = v.s

\* C14: for absolute, normalized POSIX paths A and B (which share the ancestor '/')
\* posix.relative(A, B) returns, and posix.resolve of what it returns is the normal
\* form of B
C14_RoundTrip ==
  (Called("relative") /\ pathSep = Slash
     /\ AbsoluteNormalized(pathArgs[1]) /\ AbsoluteNormalized(pathArgs[2])) =>
     /\ pathOut.t = "return"
     /\ Call(Slash, "resolve", <<ValueOf(pathOut)>>) = Returns(Str(normalize(Slash, pathArgs[2].s)))

\* a parse call of an absolute path has returned an object with a base, and format
\* is called with that object
FormatOfParsed ==
  /\ pathFn = "parse" /\ pathFn' = "format"
  /\ IsString(pathArgs[1]) /\ isAbsolute(pathSep = Slash, pathArgs[1].s)
  /\ ValueOf(pathOut).base # Empty

Reproducible(p, o) ==
  /\ EndsWith(p, o.base)
  /\ o.dir # Empty => (o.dir # o.root /\ CharAt(p, Len(o.dir)) = pathSep[1])

AdjacentSeparators(r, sep) == \E i \in 1..(Len(r) - 1) : r[i] = sep /\ r[i + 1] = sep

\* the segments between the separators of r, without an empty one at either end
InnerSegments(r, sep) ==
  LET parts == Split(r, sep)
      from == IF parts[1] = Empty THEN 2 ELSE 1
      to == IF parts[Len(parts)] = Empty THEN Len(parts) - 1 ELSE Len(parts)
  IN {parts[i] : i \in from..to}

\* what C16 says of posix.normalize(p) = r
NormalForm(p, r) ==
  /\ Empty \notin InnerSegments(r, "/") /\ Dot \notin InnerSegments(r, "/")
  /\ ~AdjacentSeparators(r, "/")
  /\ StartsWith(p, Slash) => StartsWith(r, Slash)
  /\ EndsWith(p, Slash) => EndsWith(r, Slash)
  /\ p = <<"/", "a", "/", "b", "/", ".", ".", "/", "c">> => r = <<"/", "a", "/", "c">>
  /\ p = <<"a", "/", ".", "/", "b">> => r = <<"a", "/", "b">>

\* C16: posix.normalize of a string returns a path without '.' and empty segments
\* and without two adjacent separators, with one leading and one trailing separator
\* when the input had them; "/a/b/../c" gives "/a/c", "a/./b" gives "a/b" and ""
\* gives "."
C16_NormalizeCollapses ==
  (Called("normalize") /\ pathSep = Slash /\ IsString(pathArgs[1])) =>
     /\ pathOut.t = "return"
     /\ IF pathArgs[1].s = Empty THEN ValueOf(pathOut) = Str(Dot)
        ELSE NormalForm(pathArgs[1].s, ValueOf(pathOut).s)

\* the text of p from its last '.' to its end, a trailing separator left out
FromLastDot(p, sep) ==
  Slice(p, LastIndexOf(p, ".", Len(p)), IF EndsWith(p, sep) THEN Len(p) - 1 ELSE Len(p))

\* the only '.' of the file name of p is its first character
LeadingDotOnly(p, sep) ==
  LET name == basename(sep, p, UndefinedValue)
  IN LastIndexOf(name, ".", Len(name)) = 0

\* what C17 says of extname(p) = r
ExtensionOf(p, sep, r) ==
  /\ r = IF LeadingDotOnly(p, sep) \/ IndexOf(p, ".") = -1 THEN Empty ELSE FromLastDot(p, sep)
  /\ p = <<"/", "a", "/", "b", ".", "c", ".", "j", "s">> => r = <<".", "j", "s">>
  /\ p = <<"/", "a", "/", ".", "b", "a", "s", "h", "r", "c">> => r = Empty

\* C17: extname(p) is the text from the last '.' of p to its end, less a trailing
\* separator, and the empty string when the only '.' of the file name is its first
\* character: extname("/a/b.c.js") is ".js" and extname("/a/.bashrc") is ""; and
\* basename("/a/b/c.js", ".js") is "c"
C17_ExtnameBasename ==
  /\ (Called("extname") /\ IsString(pathArgs[1])) =>
        /\ pathOut.t = "return"
        /\ ExtensionOf(pathArgs[1].s, pathSep, ValueOf(pathOut).s)
  /\ (Called("basename")
        /\ pathArgs = <<Str(<<"/", "a", "/", "b", "/", "c", ".", "j", "s">>), Str(<<".", "j", "s">>)>>)
       => pathOut = Returns(Str(<<"c">>))

\* p starts with a drive: a letter, ':' and a separator
DriveRooted(p) ==
  /\ Len(p) >= 3
  /\ p[1] \in UpperCase \cup LowerCase
  /\ p[2] = ":"
  /\ p[3] \in {"/", "\\"}

\* C18: posix.isAbsolute(p) is true exactly when p starts with '/';
\* win32.isAbsolute(p) is true exactly when p starts with '/' or '\', or with a
\* letter, ':' and then '/' or '\'; the empty string is absolute in neither
C18_IsAbsolute ==
  (Called("isAbsolute") /\ IsString(pathArgs[1])) =>
     LET p == pathArgs[1].s
     IN pathOut = Returns(Bool(
          /\ p # Empty
          /\ IF pathSep = Slash THEN p[1] = "/"
             ELSE p[1] \in {"/", "\\"} \/ DriveRooted(p)))

C18_Witness ==
  /\ Called("isAbsolute") /\ pathSep = Backslash
  /\ pathArgs = <<Str(<<"C", ":", "x">>)>>
  /\ pathOut = Returns(Bool(FALSE))


(***************************************************************************)
(* Properties of the application.                                          *)
(***************************************************************************)
\* the Login button was clicked last, and this is what its listener found
LoginClicked == pressed.label = "Login"

\* a string that has a character that is no white space
HasText(s) == \E i \in 1..Len(s) : s[i] \notin WhiteSpace

\* C19: a click on Login closes the login window and opens the calculator exactly when
\* the email has a character that is no white space and the password is not empty; any
\* other click shows the alert, leaves the login window open and opens no calculator
C19_LoginValidation ==
  LoginClicked =>
    IF HasText(pressed.email) /\ pressed.password # Empty
    THEN ~loginOpen /\ calcOpen /\ ~alertShown
    ELSE alertShown /\ loginOpen /\ ~calcOpen

\* a click with an email of white space only and a password was turned down
C19_Witness ==
  /\ LoginClicked
  /\ pressed.email = <<" ">>
  /\ pressed.password # Empty
  /\ alertShown /\ loginOpen /\ ~calcOpen

\* a click with an email padded with white space and a password of one space opened
\* the calculator
C19_WitnessAccepted ==
  /\ LoginClicked
  /\ pressed.email = <<" ", "a">>
  /\ pressed.password = <<" ">>
  /\ ~loginOpen /\ calcOpen

\* a button of the calculator was pressed last
ButtonPressed == pressed.label \in Labels

\* C20: after every press of a calculator button the display shows the current input,
\* and after a press of C both are the empty string, whatever the input was before
C20_DisplayShowsInput ==
  ButtonPressed =>
    /\ displayText = currentInput
    /\ pressed.label = "C" => currentInput = Empty /\ displayText = Empty

\* C was pressed on the Error a failed = had left
C20_Witness ==
  /\ ButtonPressed
  /\ pressed.label = "C"
  /\ pressed.before = ErrorText
  /\ currentInput = Empty
  /\ displayText = Empty

\* a = that failed left Error in the input and on the display
C20_WitnessError ==
  /\ ButtonPressed
  /\ pressed.label = "="
  /\ pressed.before = <<"1", "+">>
  /\ currentInput = ErrorText
  /\ displayText = ErrorText

(***************************************************************************)
(* Properties of file and directory resolution.                            *)
(***************************************************************************)
\* the last require call took its request for a path: the one thing it tried is
\* load-as-file-or-directory of TriedPath
PathRequested ==
  /\ Asked
  /\ Len(lastReq.log) = 1
  /\ lastReq.log[1].s \in {"absolute", "relative"}
TriedPath == lastReq.log[1].p

\* the filenames the last require call looked up in the file index, in order
RECURSIVE ProbesIn(_)
ProbesIn(trace) ==
  IF trace = << >> THEN << >>
  ELSE IF Head(trace).e = "exists" THEN <<Head(trace).f>> \o ProbesIn(Tail(trace))
  ELSE ProbesIn(Tail(trace))
Probes == ProbesIn(lastReq.trace)

\* the file candidates of path p, in the order of the claim
FileCandidates(p) == <<p, p \o ExtJs, p \o ExtJson>>

\* the first file candidate of p that exists (0: none does)
FirstFile(p) ==
  IF \E i \in 1..3 : Exists(FileCandidates(p)[i])
  THEN SetMin({i \in 1..3 : Exists(FileCandidates(p)[i])})
  ELSE 0

\* the last require call loaded a module that was not in the cache as JavaScript text:
\* it started a body; as JSON: it read the asset and started none
LoadedAsText == lastReq.t = "enter"
LoadedAsObject == lastReq.reads # << >> /\ lastReq.t # "enter"
RaisedSyntaxError == lastReq.t = "throw" /\ lastReq.err.kind = "SyntaxError"

\* load-as-file-or-directory of p did what the claim says, ParsedAsJson(i) telling
\* whether candidate i of p is to be parsed as JSON
ProbesInOrder(p, ParsedAsJson(_)) ==
  LET i == FirstFile(p)
  IN IF i = 0
     THEN /\ Len(Probes) > 3
          /\ SubSeq(Probes, 1, 3) = FileCandidates(p)
          /\ Probes[4] = resolve(Slash, <<p, PackageJson>>)
     ELSE /\ Probes = SubSeq(FileCandidates(p), 1, i)
          /\ lastReq.t \in {"enter", "ref"} => lastReq.file = FileCandidates(p)[i]
          /\ ParsedAsJson(i) => ~LoadedAsText
          /\ ~ParsedAsJson(i) => ~LoadedAsObject /\ ~RaisedSyntaxError

\* C21: load-as-file-or-directory of a path looks up the path itself, then the path with
\* '.js', then the path with '.json', and the directory candidates only when none of the
\* three exists; it loads the first that exists and looks nothing up after it; the path
\* itself is parsed as JSON when it ends in 'json' and is JavaScript text otherwise
C21_FileCandidatesInOrder ==
  PathRequested =>
    LET EndsInJson(i) == i = 3 \/ (i = 1 /\ EndsWith(TriedPath, Json))
    IN ProbesInOrder(TriedPath, EndsInJson)

\* C21 as the code has it: the path itself is parsed as JSON when it ends in 'json'
\* and has more than five characters
C21_FileCandidatesInOrderLongJson ==
  PathRequested =>
    LET LongJson(i) == i = 3 \/ (i = 1 /\ EndsWith(TriedPath, Json) /\ Len(TriedPath) > 5)
    IN ProbesInOrder(TriedPath, LongJson)

\* a file won over the directory of the same name: /shadow.js was loaded, and only
\* /shadow and /shadow.js were looked up
C21_Witness ==
  /\ PathRequested
  /\ TriedPath = S__shadow
  /\ Probes = <<S__shadow, S__shadowojs>>
  /\ lastReq.file = S__shadowojs
  /\ LoadedAsText

\* package.json of directory p, and whether it is there with a main field
PackageOf(p) == resolve(Slash, <<p, PackageJson>>)
HasMain(p) ==
  /\ Exists(PackageOf(p))
  /\ Host.files[PackageOf(p)].kind = "json"
  /\ Host.files[PackageOf(p)].main # Empty
MainOf(p) == resolve(Slash, <<p, Host.files[PackageOf(p)].main>>)
IndexJsOf(p) == resolve(Slash, <<p, IndexJs>>)
IndexJsonOf(p) == resolve(Slash, <<p, IndexJson>>)

\* the file the claims C21 and C22 say load-as-file-or-directory of p ends at (the
\* empty string: none), following at most n main fields
RECURSIVE ExpectedFile(_, _)
ExpectedFile(p, n) ==
  IF FirstFile(p) # 0 THEN FileCandidates(p)[FirstFile(p)]
  ELSE IF HasMain(p) THEN (IF n = 0 THEN Empty ELSE ExpectedFile(MainOf(p), n - 1))
  ELSE IF Exists(IndexJsOf(p)) THEN IndexJsOf(p)
  ELSE IF Exists(IndexJsonOf(p)) THEN IndexJsonOf(p)
  ELSE Empty

\* the last require call came to load TriedPath as a directory, and ended neither in a
\* parse error of a package.json nor in a recursion that has no end
DirectoryRequested ==
  /\ PathRequested
  /\ FirstFile(TriedPath) = 0
  /\ ~(lastReq.t = "throw" /\ lastReq.err.kind \in {"SyntaxError", "RangeError"})

C22_WitnessMain ==
  /\ DirectoryRequested
  /\ TriedPath = S__pkg
  /\ lastReq.file = S__pkg_lib_indexojs

\* a main field that names nothing: no match, and index.js of the directory is not tried
C22_WitnessMainMissing ==
  /\ DirectoryRequested
  /\ TriedPath = S__broken
  /\ RaisedNotFound

\* a directory with neither package.json nor index.js: index.json was loaded
C22_WitnessIndexJson ==
  /\ DirectoryRequested
  /\ TriedPath = S__data
  /\ Len(Probes) = 6
  /\ lastReq.file = S__data_indexojson
  /\ lastReq.t = "ref"

(***************************************************************************)
(* Properties of native modules.                                           *)
(***************************************************************************)
\* the first segment of a request, and the native binding registered for a name (0: none)
FirstSegment(request) == Split(request, "/")[1]
BindingOf(name) ==
  IF \E i \in 1..Len(Host.natives) : Host.natives[i] = name
  THEN CHOOSE i \in 1..Len(Host.natives) : Host.natives[i] = name
  ELSE 0

\* a bare request whose first segment has a native binding
NativeRequest(request) ==
  /\ request # Empty
  /\ IsBareSpecifier(request)
  /\ ~StartsWith(request, Dot)
  /\ BindingOf(FirstSegment(request)) # 0

\* the native module of the first segment ships a CommonJS script for the request
HasCompanion(request) ==
  FirstSegment(request) \in Host.commonJsModules /\ request \in DOMAIN Host.commonJs

\* the engine's stack ran out
StackOverflow == lastReq.t = "throw" /\ lastReq.err.kind = "RangeError"

\* C23: a bare request whose first segment has a native binding: when it is that segment
\* and nothing more, require returns the native binding; when it has a sub-path the
\* native module ships a CommonJS script for, that script is run and require returns its
\* exports; otherwise core resolution is no match and no error, and require goes on to
\* the node_modules search paths and the legacy path
C23_CoreResolution ==
  /\ (Asked /\ NativeRequest(lastReq.request)) =>
       LET r == lastReq.request
       IN IF r = FirstSegment(r)
          THEN /\ Len(lastReq.log) = 1
               /\ lastReq.t \in {"ref", "enter"} \/ StackOverflow
               /\ lastReq.t = "ref" => lastReq.v = BindingOf(r)
          ELSE IF HasCompanion(r)
          THEN /\ Len(lastReq.log) = 1
               /\ (lastReq.t = "enter" /\ lastReq.file = r) \/ StackOverflow
          ELSE /\ Len(lastReq.log) > 1
               /\ lastReq.log[2].s = "node_modules"
               /\ lastReq.t = "throw" =>
                    RaisedNotFound /\ lastReq.log[Len(lastReq.log)].s = "legacy"
  /\ NativeRequest(returned.request) =>
       LET r == returned.request
       IN IF r = FirstSegment(r) THEN returned.v = BindingOf(r)
          ELSE IF HasCompanion(r)
          THEN /\ returned.file = r
               /\ \E m \in 1..Len(modules) :
                    modules[m].filename = r /\ modules[m].exports = returned.v
          ELSE returned.file \notin DOMAIN Host.commonJs

\* require('nat') returned the native binding after its CommonJS script had run
C23_Witness ==
  /\ returned.request = S_nat
  /\ returned.v = BindingOf(S_nat)
  /\ \E i \in 1..Len(evals) : evals[i].file = S_nat \o CommonJsSuffix

\* require('nat/sub') returned the exports of the script shipped for it
C23_WitnessCompanion ==
  /\ returned.request = S_nat_sub
  /\ returned.file = S_nat_sub
  /\ heap[returned.v].vals["val"] = 1

\* require('plain/sub'), for which the native module ships nothing, went on and found
\* the asset /plain/sub.js
C23_WitnessNoMatch ==
  /\ returned.request = S_plain_sub
  /\ returned.file = S__plain_subojs
  /\ lastReq.log[Len(lastReq.log)].s = "legacy"

(***************************************************************************)
(* C24: the loaded flag of a module record while and after its body runs   *)
(***************************************************************************)
\* the module records whose bodies are executing
Executing == {stack[i].m : i \in DOMAIN stack}

\* this step ends the body on top of the stack, which returned or threw
BodyEnds == stack # << >> /\ Len(stack') = Len(stack) - 1

\* after the step the record of the body that ended is in the cache under its key: its
\* filename in Module.cache of the kernel, its id in Module._cache of LiveView
StaysCached ==
  (IF Top.kont.k = "lv" THEN modules[Top.m].id ELSE modules[Top.m].filename)
     \in DOMAIN cache'

\* C24 as stated: the loaded flag of a module is false while its body executes, and is
\* true once the body has ended, whether it returned or threw; the module stays cached
C24_LoadedOnceBodyFinished ==
  /\ [](\A m \in Executing : ~modules[m].loaded)
  /\ [][BodyEnds => modules'[Top.m].loaded /\ StaysCached]_vars

\* C24, amended: the loaded flag of a module is false while its body executes; once the
\* body has ended it is true if the body returned normally or the loader is LiveView,
\* and still false if the body threw under the kernel loader; the module stays cached
C24_LoadedUnlessKernelBodyThrew ==
  /\ [](\A m \in Executing : ~modules[m].loaded)
  /\ [][BodyEnds =>
          /\ modules'[Top.m].loaded = (exc = NoError \/ Top.kont.k = "lv")
          /\ StaysCached]_vars

\* the body of /t.js threw under the kernel loader: its record is in the cache, not loaded
C24_Witness ==
  /\ Host.loader = "kernel" /\ op = "Propagate"
  /\ \E i \in DOMAIN evals :
       /\ evals[i].file = S__tojs
       /\ S__tojs \in DOMAIN cache
       /\ ~modules[evals[i].m].loaded

\* a body that threw under LiveView has ended and its record is loaded
C24_WitnessLiveView ==
  /\ Host.loader = "liveview" /\ op = "CompileCatch"
  /\ \E m \in DOMAIN modules : modules[m].loaded /\ m \notin Executing

\* a body has returned normally under the kernel loader and its record is loaded
C24_WitnessReturned ==
  /\ Host.loader = "kernel" /\ op = "Return"
  /\ \E i \in DOMAIN evals : modules[evals[i].m].loaded /\ evals[i].m \notin Executing

(***************************************************************************)
(* C25: the order of cache insertion and source fetch during a load        *)
(***************************************************************************)
\* what the last require call did to the cache and asked of the asset store, in order
LoadTrace == IF Host.loader = "liveview" THEN lvReq.trace ELSE lastReq.trace

\* the places of the trace where the source text of a module is asked for
SourceFetches == {i \in DOMAIN LoadTrace : LoadTrace[i].e = "read"}

\* the module whose source is fetched at place i is in the cache by then
CachedBefore(i) ==
  \E j \in 1..(i - 1) : LoadTrace[j].e = "cache" /\ LoadTrace[j].f = LoadTrace[i].f

\* the module whose source is fetched at place i is put in the cache next, and was not
\* in it before
CachedRightAfter(i) ==
  /\ ~CachedBefore(i)
  /\ i < Len(LoadTrace)
  /\ LoadTrace[i + 1] = [e |-> "cache", f |-> LoadTrace[i].f]

\* C25 as stated: during a load the module record is in the cache before the asset
\* store is asked for the source text of the module
C25_CachedBeforeSourceFetched == \A i \in SourceFetches : CachedBefore(i)

\* C25, amended: the LiveView loader puts the module record in the cache before it asks
\* for the source text; the kernel loader asks the asset store for the source text
\* first and puts the record in the cache directly after, before the text is run or
\* parsed
C25_CachedAfterSourceFetchedInKernel ==
  \A i \in SourceFetches :
    IF Host.loader = "liveview" THEN CachedBefore(i) ELSE CachedRightAfter(i)

\* the kernel has read /bad.json and cached its record, and the parse then failed
C25_Witness ==
  /\ Host.loader = "kernel"
  /\ lastReq.t = "throw" /\ lastReq.err.kind = "SyntaxError"
  /\ \E i \in SourceFetches : LoadTrace[i].f = S__badojson /\ CachedRightAfter(i)

\* the kernel has read a script and cached its record, and the body is then entered
C25_WitnessScript ==
  /\ Host.loader = "kernel" /\ lastReq.t = "enter"
  /\ \E i \in SourceFetches : LoadTrace[i].f = lastReq.file /\ CachedRightAfter(i)

\* LiveView has cached a module and then fetched its source
C25_WitnessLiveView ==
  /\ Host.loader = "liveview" /\ lvReq.t = "enter"
  /\ \E i \in SourceFetches : CachedBefore(i)

(***************************************************************************)
(* C26: a require call whose module bodies terminate, terminates           *)
(***************************************************************************)
\* C26: the look-ups of one require call are bounded, so that the engine's stack runs
\* out under a require call only when the nesting of the module bodies that called it
\* has used the stack up; in particular load-as-directory does not recurse without end
\* through a main field that names its own directory
C26_RequireTerminates == StackOverflow => lastReq.depth >= MaxDepth

\* require('/loop') called by the host, /loop/package.json having main './', has used
\* the stack up, no body running and package.json being all it has read
C26_MainLoops ==
  /\ StackOverflow /\ lastReq.depth = 0
  /\ lastReq.request = S__loop
  /\ stack = << >> /\ lastReq.reads = <<S__loop \o Slash \o PackageJson>>

(***************************************************************************)
(* C27: the node_modules search paths of a start directory                 *)
(***************************************************************************)
\* a directory and the directories above it, nearest first, the root being the last
RECURSIVE AncestorsOf(_)
AncestorsOf(dir) ==
  IF dirname(Slash, dir) = dir \/ Len(dir) <= 1 THEN <<dir>>
  ELSE <<dir>> \o AncestorsOf(dirname(Slash, dir))

\* the last segment of a directory
LastSegment(dir) == basename(Slash, dir, UndefinedValue)

RECURSIVE SearchPathsOf(_)
\* <ancestor>/node_modules for the directories of a list whose last segment is neither
\* 'node_modules' nor empty, in the order of the list
SearchPathsOf(dirs) ==
  IF dirs = << >> THEN << >>
  ELSE IF LastSegment(Head(dirs)) \in {NodeModules, Empty} THEN SearchPathsOf(Tail(dirs))
  ELSE <<Head(dirs) \o Slash \o NodeModules>> \o SearchPathsOf(Tail(dirs))

\* nodeModulesPaths has been called; the start directory it was given, resolved, and
\* the list it returned
SearchPathsComputed == pathFn = "nodeModulesPaths"
StartDir == resolve(Slash, <<pathArgs[1].s>>)
SearchPaths == pathOut.v.items

\* C27: nodeModulesPaths(startDir) returns, nearest ancestor first, <ancestor>/node_modules
\* for every ancestor directory of the resolved start directory whose last segment is
\* neither 'node_modules' nor empty, and '/node_modules' last; no entry is there twice,
\* and for the root the list is exactly ['/node_modules']
C27_NodeModulesPaths ==
  SearchPathsComputed =>
    /\ pathOut.t = "return"
    /\ SearchPaths = Append(SearchPathsOf(AncestorsOf(StartDir)), RootNodeModules)
    /\ SearchPaths[Len(SearchPaths)] = RootNodeModules
    /\ \A i, j \in DOMAIN SearchPaths : i # j => SearchPaths[i] # SearchPaths[j]
    /\ \A i, j \in DOMAIN SearchPaths : i < j => Len(SearchPaths[i]) > Len(SearchPaths[j])
    /\ StartDir = Slash => SearchPaths = <<RootNodeModules>>

\* the search paths of /a/node_modules/a: its own node_modules, /a/node_modules once,
\* and /node_modules
C27_Witness ==
  /\ SearchPathsComputed
  /\ StartDir = Slash \o <<"a">> \o Slash \o NodeModules \o Slash \o <<"a">>
  /\ SearchPaths = <<StartDir \o Slash \o NodeModules, Slash \o <<"a">> \o Slash \o NodeModules,
                     RootNodeModules>>

\* the search paths of the root, given as '/..'
C27_WitnessRoot ==
  /\ SearchPathsComputed
  /\ pathArgs[1].s = Slash \o DotDot /\ StartDir = Slash
  /\ SearchPaths = <<RootNodeModules>>

(***************************************************************************)
(* C28: the file index is read once                                        *)
(***************************************************************************)
\* the places of a trace where the index is read, and where a file is looked up in it
IndexReadsIn(trace) == {i \in DOMAIN trace : trace[i].e = "index"}
ChecksIn(trace) == {i \in DOMAIN trace : trace[i].e = "exists"}

\* this step is a require call that makes an existence check
Checks == lastReq' # lastReq /\ ChecksIn(lastReq'.trace) # {}

\* the call of this step reads the index once, directly before its first existence check
ReadsIndexFirst ==
  /\ IndexReadsIn(lastReq'.trace) = {SetMin(ChecksIn(lastReq'.trace)) - 1}
  /\ indexReads' = 1 /\ fileIndex'.loaded

\* the call of this step answers every existence check from the index it found
AnswersFromIndex ==
  /\ IndexReadsIn(lastReq'.trace) = {}
  /\ indexReads' = indexReads /\ fileIndex' = fileIndex

\* C28: the file index is read from the asset store at most once, by the first existence
\* check; every later existence check of any require call is answered from the index
\* kept since, which is never read again, changed or dropped
C28_FileIndexReadOnce ==
  /\ [](indexReads <= 1 /\ (fileIndex.loaded <=> indexReads = 1))
  /\ [][fileIndex.loaded => fileIndex' = fileIndex /\ indexReads' = indexReads]_vars
  /\ [][Checks => IF fileIndex.loaded THEN AnswersFromIndex ELSE ReadsIndexFirst]_vars
  /\ [][~fileIndex.loaded /\ fileIndex'.loaded => Checks]_vars

\* a second require call has made existence checks without reading the index again
C28_Witness ==
  /\ calls >= 2 /\ indexReads = 1 /\ fileIndex.loaded
  /\ ChecksIn(lastReq.trace) # {} /\ IndexReadsIn(lastReq.trace) = {}

\* the first existence check has read the index
C28_WitnessFirstCheck ==
  /\ indexReads = 1
  /\ lastReq.trace[1].e = "index" /\ lastReq.trace[2].e = "exists"

(***************************************************************************)
(* C29: runModule, the entry module and Module.main                        *)
(***************************************************************************)
\* this step is a call of Module.runModule, which has entered the body of its module
RunsModule == op' = "RunModule" /\ calls' = calls + 1 /\ Len(stack') = 1

\* the module the runModule call of this step has made, and the frame of its body
Run == modules'[stack'[1].m]
RunFrame == stack'[1]

\* the runModule call of this step was given filename and isService
RunWith(filename, isService) ==
  /\ <<filename, isService>> \in Host.entries
  /\ Run.filename = ReplaceResources(filename)
  /\ Run.isService = isService

\* the runModule call of this step is the first: its module has id '.', is Module.main,
\* and runs unwrapped unless it is the entry of a background service
FirstRun ==
  /\ Run.id = MainModuleId
  /\ mainModule' = RunFrame.m
  /\ RunFrame.wrapped = Run.isService
  /\ \E e \in Host.entries : RunWith(e[1], e[2])

\* the runModule call of this step is a later one: its module has the filename it was
\* given as id and runs inside the wrapper
LaterRun ==
  /\ \E e \in Host.entries : RunWith(e[1], e[2]) /\ Run.id = e[1]
  /\ Run.id # MainModuleId
  /\ RunFrame.wrapped

\* C29: the first module run through runModule, while there is no main module, gets id
\* '.', becomes Module.main and runs unwrapped in the global scope unless it is the entry
\* of a background service; every later runModule call gives its module the filename as
\* id and runs it inside the wrapper; Module.main, once set, never changes
C29_EntryModule ==
  /\ [][RunsModule => IF mainModule = 0 THEN FirstRun ELSE LaterRun]_vars
  /\ [][op' = "RunModule" => RunsModule]_vars
  /\ [][mainModule # 0 => mainModule' = mainModule]_vars
  /\ [][mainModule' # mainModule => op' = "RunModule"]_vars

\* /svc.js was run first, as a service: it is Module.main and ran wrapped; /app.js is run
\* after it, with its filename as id, inside the wrapper
C29_Witness ==
  /\ op = "RunModule" /\ Len(stack) = 1 /\ stack[1].wrapped
  /\ mainModule # 0 /\ mainModule # stack[1].m
  /\ modules[mainModule].isService /\ modules[mainModule].id = MainModuleId
  /\ modules[mainModule].filename = S__svcojs
  /\ modules[stack[1].m].id = S_Resources_appojs
  /\ modules[stack[1].m].filename = S__appojs
  /\ globalRequire = 0

\* /app.js was run first: it is Module.main, has id '.' and runs unwrapped
C29_WitnessUnwrapped ==
  /\ op = "RunModule" /\ Len(stack) = 1 /\ ~stack[1].wrapped
  /\ mainModule = stack[1].m /\ modules[mainModule].id = MainModuleId
  /\ ~modules[mainModule].isService
  /\ globalRequire = mainModule

(***************************************************************************)
(* C30: a module whose load failed stays in the cache                      *)
(***************************************************************************)
\* the module records of assets in the kernel cache whose load has failed: text that did
\* not parse or a body that threw has left them not loaded, and no body of theirs is
\* running
FailedModules ==
  {m \in DOMAIN modules :
     /\ Host.loader = "kernel"
     /\ modules[m].filename \in DOMAIN Host.files
     /\ ~modules[m].loaded /\ m \notin Executing
     /\ modules[m].filename \in DOMAIN cache
     /\ cache[modules[m].filename] = ModuleEntry(m)}

\* the step leaves the failed record m as it is: cached, not loaded, with its exports
StaysFailed(m) ==
  /\ modules[m].filename \in DOMAIN cache'
  /\ cache'[modules[m].filename] = ModuleEntry(m)
  /\ modules'[m] = modules[m]
  /\ heap'[modules[m].exports] = heap[modules[m].exports]

\* this step is a require call of the kernel
Requires == op' \in {"GlobalRequire", "ExecRequire"}

\* the require call of this step ends with the look-up of filename, which is cached
ResolvesToCached(filename) ==
  /\ Requires /\ lastReq'.trace # << >>
  /\ lastReq'.trace[Len(lastReq'.trace)] = [e |-> "exists", f |-> filename]

\* the require call of this step returns the exports of the failed record m to its
\* caller, reads no asset and runs no body
ReturnsFailed(m) ==
  /\ lastReq'.t # "throw" /\ lastReq'.v = modules[m].exports
  /\ lastReq'.file = modules[m].filename
  /\ lastReq'.reads = << >>
  /\ evals' = evals /\ exc' = NoError
  /\ stack' = Resume(stack, modules[m].exports)

\* the require call of this step fails because the text of a JSON module does not parse
ParseFails ==
  /\ Requires /\ lastReq'.t = "throw" /\ lastReq'.err.kind = "SyntaxError"

\* the step by which the error of a body leaves the body of a JavaScript asset module
BodyFails ==
  /\ Host.loader = "kernel" /\ BodyEnds /\ exc # NoError /\ Top.kont.k = "text"

\* C30: when a require fails because the text of a JSON module does not parse or the
\* body of a JavaScript module threw, the module record stays in the cache, not loaded
\* and with the exports it had; a later require that resolves to its filename returns
\* those exports, raises nothing, and neither reads nor runs the asset again
C30_FailedModuleStaysCached ==
  /\ [][ParseFails =>
          \E m \in FailedModules' \ FailedModules :
            /\ modules'[m].filename = lastReq'.err.msg
            /\ heap'[modules'[m].exports] = EmptyObject]_vars
  /\ [][BodyFails =>
          /\ Top.m \in FailedModules'
          /\ heap'[modules'[Top.m].exports] = heap[modules[Top.m].exports]]_vars
  /\ [][\A m \in FailedModules :
          /\ op' # "RunModule" => StaysFailed(m)
          /\ ResolvesToCached(modules[m].filename) => ReturnsFailed(m)]_vars

\* /t.js has thrown after setting val; a later require('./t') has returned its exports
C30_Witness ==
  /\ op = "GlobalRequire" /\ lastReq.request = S_o_t /\ ~lastReq.fresh
  /\ lastReq.t # "throw" /\ lastReq.reads = << >>
  /\ \E m \in FailedModules :
       /\ modules[m].filename = S__tojs
       /\ lastReq.v = modules[m].exports
       /\ heap[modules[m].exports].vals["val"] = 1
  /\ outcome.kind = "return"

\* /bad.json did not parse; a later require('./bad.json') has returned its empty exports
C30_WitnessJson ==
  /\ op = "GlobalRequire" /\ lastReq.request = S_o_badojson /\ ~lastReq.fresh
  /\ lastReq.t # "throw" /\ lastReq.reads = << >>
  /\ \E m \in FailedModules :
       /\ modules[m].filename = S__badojson
       /\ lastReq.v = modules[m].exports
       /\ heap[modules[m].exports] = EmptyObject

(***************************************************************************)
(* C31: a main field that leads to nothing                                 *)
(***************************************************************************)
\* the last require call came to load TriedPath as a directory whose package.json has a
\* main field, and load-as-file-or-directory of the path main names finds nothing
MainLeadsNowhere ==
  /\ PathRequested
  /\ FirstFile(TriedPath) = 0
  /\ HasMain(TriedPath)
  /\ MainOf(TriedPath) # TriedPath
  /\ ExpectedFile(MainOf(TriedPath), MaxDepth) = Empty

ResolveCalled == Called("resolve") /\ \A i \in DOMAIN pathArgs : IsString(pathArgs[i])
ResolveArgs == strings(pathArgs)
Resolved == ValueOf(pathOut).s

\* the places of the absolute segments of a resolve call
AbsoluteArgs == {i \in DOMAIN ResolveArgs : isAbsolute(pathSep = Slash, ResolveArgs[i])}

\* a root of the namespace: the separator alone, or a drive root of win32
IsRootPath(separator, p) ==
  \/ p = separator
  \/ /\ separator = Backslash /\ Len(p) = 3
     /\ isWindowsDeviceName(p[1]) /\ p[2] = ":" /\ p[3] = "\\"

\* p is in normal form: none of its segments is '.' or '..', and none is empty but those
\* of the separators it starts with and, for a root, the one after its separator
InNormalForm(separator, p) ==
  LET segments == Split(p, separator[1])
  IN /\ \A i \in DOMAIN segments : segments[i] \notin {Dot, DotDot}
     /\ IsRootPath(separator, p) \/ \A i \in 3..Len(segments) : segments[i] # Empty

\* C32: resolve uses the rightmost absolute segment and the segments right of it alone,
\* puts the current working directory first when no segment is absolute, and returns an
\* absolute path in normal form that ends with the separator only if it is a root
C32_Resolve ==
  ResolveCalled =>
    /\ pathOut.t = "return"
    /\ AbsoluteArgs # {} =>
         Resolved = resolve(pathSep, SubSeq(ResolveArgs, SetMax(AbsoluteArgs), Len(ResolveArgs)))
    /\ AbsoluteArgs = {} => Resolved = resolve(pathSep, <<cwd>> \o ResolveArgs)
    /\ isAbsolute(pathSep = Slash, Resolved)
    /\ InNormalForm(pathSep, Resolved)
    /\ EndsWith(Resolved, pathSep) => IsRootPath(pathSep, Resolved)

\* C32 in the POSIX namespace alone
C32_ResolvePosix == pathSep = Slash => C32_Resolve

\* win32.resolve('C:\..') has returned the empty string
C32_DriveLost ==
  /\ ResolveCalled /\ pathSep = Backslash
  /\ ResolveArgs = <<<<"C", ":", "\\", ".", ".">>>>
  /\ Resolved = Empty

(***************************************************************************)
(* C33, C34: what relative returns, and that it returns                    *)
(***************************************************************************)
\* relative has been called with two strings, in the namespace of pathSep
RelativeCalled == Called("relative") /\ IsString(pathArgs[1]) /\ IsString(pathArgs[2])
FromPath == resolve(pathSep, <<pathArgs[1].s>>)
ToPath == resolve(pathSep, <<pathArgs[2].s>>)

\* from after n dirname steps
RECURSIVE Shrunken(_, _)
Shrunken(from, n) == IF n = 0 THEN from ELSE dirname(pathSep, Shrunken(from, n - 1))

\* the numbers of dirname steps after which the shrunken from is a prefix of to; from
\* cannot shrink more often than it has characters
StepsToPrefix(from, to) == {n \in 0..Len(from) : StartsWith(to, Shrunken(from, n))}

\* s with its leading separator stripped
Stripped(s) == IF StartsWith(s, pathSep) THEN SliceFrom(s, 1) ELSE s

\* what the claim says relative returns for resolved from and to that differ
RelativePath(from, to) ==
  LET n == SetMin(StepsToPrefix(from, to))
  IN repeatUp(pathSep, n) \o Stripped(SliceFrom(to, Len(Shrunken(from, n))))

\* C33: relative(from, to), when it returns, returns the empty string if from and to
\* resolve to the same path, and otherwise one '..' and separator for each dirname step
\* it takes until the shrunken from is a prefix of to, followed by the rest of to with
\* its leading separator stripped
C33_Relative ==
  (RelativeCalled /\ pathOut.t = "return") =>
     ValueOf(pathOut).s = IF FromPath = ToPath THEN Empty ELSE RelativePath(FromPath, ToPath)

\* the example of the claim: relative('/a/b', '/a/c') has returned '../c'
C33_Example ==
  /\ RelativeCalled /\ pathSep = Slash
  /\ pathArgs[1].s = <<"/", "a", "/", "b">> /\ pathArgs[2].s = <<"/", "a", "/", "c">>
  /\ pathOut = Returns(Str(<<".", ".", "/", "c">>))

\* relative('/a', '/ab') has returned the empty string: the rest of to, 'b', has no
\* leading separator and has lost its first character
C33_SegmentCut ==
  /\ RelativeCalled /\ pathSep = Slash
  /\ pathArgs[1].s = <<"/", "a">> /\ pathArgs[2].s = <<"/", "a", "b">>
  /\ pathOut = Returns(Str(Empty))

\* C34: relative(from, to) returns for every pair of strings in both namespaces, win32
\* paths on different drives included: the loop that takes dirname of from comes to a
\* prefix of to
C34_RelativeTerminates == RelativeCalled => pathOut.t = "return"

\* C34 in the POSIX namespace alone
C34_RelativeTerminatesPosix == (RelativeCalled /\ pathSep = Slash) => pathOut.t = "return"

\* win32.relative('C:\a', 'D:\b') never returns: from has shrunk to 'C:', which is its
\* own dirname and no prefix of 'D:\b'
C34_DrivesApart ==
  /\ RelativeCalled /\ pathSep = Backslash
  /\ pathArgs[1].s = <<"C", ":", "\\", "a">> /\ pathArgs[2].s = <<"D", ":", "\\", "b">>
  /\ pathOut = Hangs
  /\ dirname(Backslash, FromPath) = <<"C", ":">>
  /\ dirname(Backslash, <<"C", ":">>) = <<"C", ":">>

(***************************************************************************)
(* C35, C36: normalize and the '..' segments                               *)
(***************************************************************************)
\* normalize has been called with a string that is not empty, in the namespace of pathSep
NormalizeCalled == Called("normalize") /\ IsString(pathArgs[1]) /\ pathArgs[1].s # Empty
NormalizeArg == IF pathSep = Backslash THEN ReplaceSlashes(pathArgs[1].s) ELSE pathArgs[1].s

\* the segments of p that are not empty
Filled(p) == SelectSeq(Split(p, pathSep[1]), LAMBDA segment : segment # Empty)

\* the segments of parts[1..i] that are left when every '..' takes away the nearest
\* segment kept before it, read from the right: skip counts the '..' still to be served,
\* and those that are left over at the start are dropped
RECURSIVE KeptFromRight(_, _, _)
KeptFromRight(parts, i, skip) ==
  IF i = 0 THEN << >>
  ELSE IF parts[i] \in {Empty, Dot} THEN KeptFromRight(parts, i - 1, skip)
  ELSE IF parts[i] = DotDot THEN KeptFromRight(parts, i - 1, skip + 1)
  ELSE IF skip > 0 THEN KeptFromRight(parts, i - 1, skip - 1)
  ELSE Append(KeptFromRight(parts, i - 1, 0), parts[i])

Retained(p) == KeptFromRight(Split(p, pathSep[1]), Len(Split(p, pathSep[1])), 0)

\* C35: normalize lets each '..' take away the segment retained before it and checks no
\* bounds: a '..' with no retained segment before it is dropped without an error, so
\* that normalize('/../a') is '/a' and normalize('../a') is 'a'
C35_DotDotPops ==
  NormalizeCalled =>
    /\ pathOut.t = "return"
    /\ Filled(ValueOf(pathOut).s) = Retained(NormalizeArg)
    /\ pathSep = Slash /\ pathArgs[1].s = <<"/", ".", ".", "/", "a">> =>
         ValueOf(pathOut).s = <<"/", "a">>
    /\ pathSep = Slash /\ pathArgs[1].s = <<".", ".", "/", "a">> =>
         ValueOf(pathOut).s = <<"a">>

\* normalize('/../a') has returned '/a'
C35_Witness ==
  /\ NormalizeCalled /\ pathSep = Slash
  /\ pathArgs[1].s = <<"/", ".", ".", "/", "a">>
  /\ pathOut = Returns(Str(<<"/", "a">>))

\* normalize('../a') has returned 'a'
C35_WitnessRelative ==
  /\ NormalizeCalled /\ pathSep = Slash
  /\ pathArgs[1].s = <<".", ".", "/", "a">>
  /\ pathOut = Returns(Str(<<"a">>))

\* C36: normalize is idempotent in both namespaces: for every string p,
\* normalize(normalize(p)) is normalize(p)
C36_NormalizeIdempotent ==
  (Called("normalize") /\ IsString(pathArgs[1])) =>
     /\ pathOut.t = "return"
     /\ Call(pathSep, "normalize", <<ValueOf(pathOut)>>) = pathOut

\* normalize('.') has returned the empty string, of which normalize is '.'
C36_DotLost ==
  /\ Called("normalize") /\ pathArgs[1] = Str(Dot)
  /\ pathOut = Returns(Str(Empty))
  /\ Call(pathSep, "normalize", <<ValueOf(pathOut)>>) = Returns(Str(Dot))

\* normalize('./') has returned '/', of which normalize is '//'
C36_RootDoubled ==
  /\ Called("normalize") /\ pathSep = Slash /\ pathArgs[1] = Str(<<".", "/">>)
  /\ pathOut = Returns(Str(Slash))
  /\ Call(pathSep, "normalize", <<ValueOf(pathOut)>>) = Returns(Str(<<"/", "/">>))

\* C37: in the LiveView loader, a require served from the cache returns the exports of
\* a module whose id is the resolved id, the resolved id without a trailing '/index'
\* or the resolved id with '/index' appended, and of no other module
C37_CachedAtAlias ==
  lvReq.t = "cached" =>
    \A m \in DOMAIN modules :
      modules[m].exports = lvReq.v => modules[m].id \in Aliases(lvReq.fullPath)

\* require('/x/indexes') has returned the exports of the cached module '/xes'
C37_Unrelated ==
  /\ lvReq.t = "cached" /\ lvReq.fullPath = S__x_indexes
  /\ lvReq.id = S__xes
  /\ \E m \in DOMAIN modules : modules[m].id = S__xes /\ modules[m].exports = lvReq.v

\* the ids of the modules whose bodies _compile is executing, outermost first
RECURSIVE CompilingIds(_)
CompilingIds(frames) ==
  IF frames = << >> THEN << >>
  ELSE IF frames[1].kont.k = "lv" THEN <<frames[1].kont.id>> \o CompilingIds(Tail(frames))
  ELSE CompilingIds(Tail(frames))

\* _compileList is the list of the executing bodies
ListsExecutingBodies == compileList = CompilingIds(stack)

\* this step is a call of Module.require that has come to an end, with exports or an
\* error, without starting a body
RequireEnds == lvReq' # lvReq /\ lvReq'.t \in {"cached", "native", "caught", "throw"}

\* this step starts the body of the module the call of Module.require has created
BodyStarts == lvReq' # lvReq /\ lvReq'.t = "enter"

\* this step ends the body of a LiveView module, which came to its end or threw
LiveViewBodyEnds == BodyEnds /\ Top.kont.k = "lv"

\* the stack is pushed before the body, popped after it, and as it was when a call of
\* require is over
PushedAndPopped ==
  /\ RequireEnds => compileList' = lvReq'.before /\ compileList' = compileList
  /\ BodyStarts => /\ lvReq'.before = compileList
                   /\ compileList' = Append(compileList, lvReq'.id)
                   /\ stack'[Len(stack')].kont.id = lvReq'.id
                   /\ stack'[Len(stack')].pc = 1
  /\ LiveViewBodyEnds => /\ compileList # << >>
                         /\ compileList[Len(compileList)] = Top.kont.id
                         /\ compileList' = SubSeq(compileList, 1, Len(compileList) - 1)
                         /\ compileList' = CompilingIds(stack')

\* a body's relative specifier is resolved against the id of the innermost body
ResolvedAgainstTop ==
  (op' = "LvExecRequire" /\ IsRelativeSpecifier(lvReq'.request)
     /\ lvReq'.err.kind # "RangeError") =>
     /\ compileList[Len(compileList)] = Top.kont.id
     /\ lvReq'.fullPath = toAbsolute(Top.kont.id, lvReq'.request)

\* C38: in the LiveView loader _compileList holds exactly the ids of the modules whose
\* bodies are executing, innermost last: a compile pushes its id before the body runs
\* and pops it when the body has ended, by returning or by throwing, so that when a
\* require is over the list is what it was before the call, and a relative specifier
\* is resolved against the id on top of the list
C38_CompileStack ==
  /\ []ListsExecutingBodies
  /\ [][PushedAndPopped /\ ResolvedAgainstTop]_vars

\* the body of 't', required by 'u' as './t' while 'app' was executing 'u', has thrown:
\* the list is 'app', 'u' again
C38_Witness ==
  /\ compileList = <<S_app, <<"u">>>>
  /\ \E i \in DOMAIN emitted : emitted[i].module = <<"t">> \o ExtJs
  /\ lvReq.request = S_o_t /\ lvReq.fullPath = <<"t">> /\ lvReq.before = <<S_app, <<"u">>>>
  /\ Len(stack) = 2

\* 'c2', required by 'c1' as './c2', is executing: the list is 'c1', 'c2'
C38_WitnessNested ==
  /\ compileList = <<S_c1, <<"c", "2">>>>
  /\ Len(stack) = 2 /\ Top.kont.id = <<"c", "2">>

\* the plus-minus button has just been pressed twice, with no other event between the
\* two presses
NegatedTwice == pressed.label = "±" /\ pressed.previous # << >>

\* the input before the first of the two presses
BeforeNegations == pressed.previous[1]

MinusMinus == <<"-", "-">>

\* C39 as stated: for every input reached by button presses, two presses of the
\* plus-minus button in succession restore the input shown before the first press
C39_NegationInvolution ==
  NegatedTwice => (currentInput = BeforeNegations /\ displayText = BeforeNegations)

\* C39, amended: two presses of the plus-minus button in succession restore the input
\* shown before the first press unless that input starts with two minus signs, and
\* take those two minus signs away when it does
C39_NegationInvolutionButMinusMinus ==
  NegatedTwice =>
    /\ ~StartsWith(BeforeNegations, MinusMinus) =>
         (currentInput = BeforeNegations /\ displayText = BeforeNegations)
    /\ StartsWith(BeforeNegations, MinusMinus) =>
         (currentInput = SliceFrom(BeforeNegations, 2) /\ displayText = currentInput)

\* the plus-minus button has been pressed twice on '1+2', which is the input again
C39_Witness ==
  /\ NegatedTwice /\ BeforeNegations = <<"1", "+", "2">>
  /\ pressed.before = <<"-", "1", "+", "2">>
  /\ currentInput = <<"1", "+", "2">> /\ displayText = currentInput

\* the plus-minus button has been pressed twice on '-1', which is the input again
C39_WitnessNegative ==
  /\ NegatedTwice /\ BeforeNegations = <<"-", "1">>
  /\ pressed.before = <<"1">>
  /\ currentInput = <<"-", "1">>

\* the plus-minus button has been pressed twice on '--1', and the input is '1'
C39_WitnessMinusMinus ==
  /\ NegatedTwice /\ BeforeNegations = <<"-", "-", "1">>
  /\ pressed.before = <<"-", "1">>
  /\ currentInput = <<"1">>

====
